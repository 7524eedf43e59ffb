----------------------------- MODULE IndexLines -----------------------------
(***************************************************************************)
(* What long-term-memory.md promises its readers, whatever it looks like   *)
(* on disk: a list with one entry per memory, to which one write adds an   *)
(* entry at the end, replaces one in place, or takes one out.  A reader    *)
(* sees the list before a write or after it, also when the writer dies.    *)
(***************************************************************************)
EXTENDS Naturals, Sequences, SequencesExt

CONSTANTS
  Memories,   \* the mem_ids that may be listed
  Briefs      \* what an entry may say of its memory

VARIABLE list

Entry == [mem : Memories, hook : Briefs]

AddEntry(e) ==
  /\ \A i \in DOMAIN list : list[i].mem # e.mem
  /\ list' = Append(list, e)

ReplaceEntry(i, hook) == list' = [list EXCEPT ![i].hook = hook]

DropEntry(i) == list' = RemoveAt(list, i)

ListInit == list = <<>>
ListNext ==
  \/ \E e \in Entry : AddEntry(e)
  \/ \E i \in DOMAIN list : DropEntry(i) \/ \E hook \in Briefs : ReplaceEntry(i, hook)
ListSpec == ListInit /\ [][ListNext]_list
=============================================================================
