----------------------------- MODULE IndexFile ------------------------------
(***************************************************************************)
(* The file behind the set of lines that StoreOps calls the index:         *)
(* long-term-memory.md as store/index.go parses and serializes it, and     *)
(* writeIndexAtomic with the temporary file and the rename of PutFolder.   *)
(* The other modules take a write of the index, and of any blob, as one    *)
(* step; this one shows what that rests on.                                *)
(*                                                                         *)
(* Abstractions.  Text is a sequence of tokens: words and the three marks  *)
(* the format knows, "-" at the start of a line, Bar and Break.  Blanks    *)
(* are not tokens: TrimSpace is the identity, and texts are equal up to    *)
(* blanks.  A line's name (memName) is its mem_id.  Operating assumption:  *)
(* one writer at a time (PROJECT.json lists the race as a hazard); readers *)
(* may read at any moment.                                                 *)
(***************************************************************************)
EXTENDS PartialMaps, Naturals, Sequences, SequencesExt

CONSTANTS
  Mems,        \* mem_ids; validKey keeps Bar and Break out of them
  Descriptions,\* briefs and LLM hooks: any text, marks included
  HookMax,     \* hookMaxLen
  MaxWrites,   \* bounds: index writes begun,
  MaxStops     \*   writes cut short

Dash == "-"
Bar == "|"
Break == "\n"
Title == "# Long-term memory index"
Header == <<Title>>
NoKey == << <<>> >>

ASSUME IndexAssumption ==
  /\ {HookMax, MaxWrites, MaxStops} \subseteq Nat
  /\ \A brief \in Descriptions : brief \in Seq(ToSet(brief))
  /\ Mems \intersect {Bar, Break} = {}

VARIABLES
  disk,        \* path -> content, a text
  seen,        \* history: the list a reader now finds in long-term-memory.md
  op,          \* the write in progress
  writes,      \* history: writes begun
  stops        \* history: writes cut short

indexVars == <<disk, seen, op, writes, stops>>

(***************************************************************************)
(* The format.                                                             *)
(***************************************************************************)
\* The members of S in s, in order.
Only(s, S) == FlattenSeq([i \in DOMAIN s |-> IF s[i] \in S THEN <<s[i]>> ELSE <<>>])

Split(text, mark) ==
  LET marks == Only([i \in DOMAIN text |-> i], {i \in DOMAIN text : text[i] = mark})
      cuts == <<0>> \o marks \o <<Len(text) + 1>>
  IN  [n \in 1..Len(cuts) - 1 |-> SubSeq(text, cuts[n] + 1, cuts[n + 1] - 1)]

\* SplitN(s, "|", 3): the third part keeps its bars, here as the list of its fields.  A line
\* that is no list line has no key.
ParseLine(raw) ==
  LET fields == Split(Tail(raw), Bar)
  IN  IF raw # <<>> /\ Head(raw) = Dash /\ Len(fields) >= 3
      THEN [name |-> fields[1], hook |-> fields[2], key |-> SubSeq(fields, 3, Len(fields))]
      ELSE [name |-> <<>>, hook |-> <<>>, key |-> NoKey]

\* Duplicate keys keep the first occurrence.
ParseIndex(text) ==
  LET raws == Split(text, Break)
      all == [i \in DOMAIN raws |-> [at |-> i, line |-> ParseLine(raws[i])]]
      keyed == {a \in ToSet(all) : a.line.key # NoKey}
      first == Only(all, {a \in keyed : ~\E b \in keyed : b.at < a.at /\ b.line.key = a.line.key})
  IN  [i \in DOMAIN first |-> first[i].line]

Key(m) == << <<m>> >>
Positions(lines, key) == {i \in DOMAIN lines : lines[i].key = key}

SerializeLine(l) ==
  <<Dash>> \o l.name \o <<Bar>> \o l.hook \o <<Bar>> \o FlattenSeq(l.key) \o <<Break>>
SerializeIndex(lines) ==
  Header \o <<Break>> \o FlattenSeq([i \in DOMAIN lines |-> SerializeLine(lines[i])])

\* Marks become blanks.
Sanitized(text) == Only(text, ToSet(text) \ {Bar, Break})
\* Mutant of CapLen: no cap.
CapLen_None(text, max) == text
CapLen(text, max) == SubSeq(text, 1, IF Len(text) > max THEN max ELSE Len(text))

UpsertIndexLine(text, m, brief) ==
  LET lines == ParseIndex(text)
      line == [name |-> <<m>>, hook |-> CapLen(Sanitized(brief), HookMax), key |-> Key(m)]
  IN  SerializeIndex(IF Positions(lines, Key(m)) = {} THEN Append(lines, line)
                     ELSE [i \in DOMAIN lines |-> IF lines[i].key = Key(m) THEN line ELSE lines[i]])

RemoveIndexLine(text, m) ==
  LET lines == ParseIndex(text)
  IN  IF Positions(lines, Key(m)) = {} THEN text
      ELSE SerializeIndex(RemoveAt(lines, CHOOSE i \in Positions(lines, Key(m)) : TRUE))

(***************************************************************************)
(* A write.  op.pc is the next access, op.new the content to be written,   *)
(* op.puts the calls of PutFolder still to be made.                        *)
(***************************************************************************)
Main == <<"md">>
Bak == <<"md", "bak">>
\* Mutant of Tmp: writes the file itself.
Tmp_InPlace(path) == path
Tmp(path) == path \o <<"tmp">>

NoWrite == [pc |-> "idle", new |-> <<>>, puts |-> <<>>]
Exists(path) == path \in DOMAIN disk
GetFolder(path) == IF Exists(path) THEN disk[path] ELSE <<>>

\* upsertIndex, removeIndex and the dream pass's gate read the file and compute the new one.
\* Without a file there is no line to remove; a gate that passes then writes an empty one.
Begin(new) ==
  /\ op = NoWrite
  /\ writes < MaxWrites
  /\ writes' = writes + 1
  /\ op' = [NoWrite EXCEPT !.pc = "prev", !.new = new]
  /\ UNCHANGED <<disk, seen, stops>>
Upsert == \E m \in Mems, brief \in Descriptions : Begin(UpsertIndexLine(GetFolder(Main), m, brief))
RemoveLine == Exists(Main) /\ \E m \in Mems : Begin(RemoveIndexLine(disk[Main], m))
Commit == Begin(GetFolder(Main))

\* Mutant of Puts: the copy after the write.
Puts_BakLast(prev, new) == << <<Main, new>> >> \o prev
Puts(prev, new) == prev \o << <<Main, new>> >>
BackUp ==
  /\ op.pc = "prev"
  /\ op' = [op EXCEPT !.pc = "open",
                      !.puts = Puts(IF Exists(Main) THEN << <<Bak, disk[Main]>> >> ELSE <<>>, op.new)]
  /\ UNCHANGED <<disk, seen, writes, stops>>

Target == Head(op.puts)[1]
Data == Head(op.puts)[2]

Listing(text) ==
  LET lines == ParseIndex(text)
  IN  [i \in DOMAIN lines |-> [mem |-> Head(FlattenSeq(lines[i].key)), hook |-> lines[i].hook]]
Shows(path, text) == seen' = IF path = Main THEN Listing(text) ELSE seen

\* os.WriteFile truncates the temporary file and writes it piece by piece.
OpenTmp ==
  /\ op.pc = "open"
  /\ \E k \in 0..Len(Data) :
       /\ disk' = With(disk, Tmp(Target), SubSeq(Data, 1, k))
       /\ Shows(Tmp(Target), SubSeq(Data, 1, k))
  /\ op' = [op EXCEPT !.pc = "write"]
  /\ UNCHANGED <<writes, stops>>

WriteTmp ==
  /\ op.pc = "write"
  /\ disk' = With(disk, Tmp(Target), Data)
  /\ Shows(Tmp(Target), Data)
  /\ op' = [op EXCEPT !.pc = "rename"]
  /\ UNCHANGED <<writes, stops>>

Rename ==
  /\ op.pc = "rename"
  /\ disk' = With(Without(disk, Tmp(Target)), Target, disk[Tmp(Target)])
  /\ Shows(Target, disk[Tmp(Target)])
  /\ op' = IF Len(op.puts) = 1 THEN NoWrite ELSE [op EXCEPT !.pc = "open", !.puts = Tail(@)]
  /\ UNCHANGED <<writes, stops>>

\* The process is killed; what is on disk stays.
StopWrite ==
  /\ op # NoWrite
  /\ stops < MaxStops
  /\ stops' = stops + 1
  /\ op' = NoWrite
  /\ UNCHANGED <<disk, seen, writes>>

IndexInit ==
  /\ disk = <<>>
  /\ seen = <<>>
  /\ op = NoWrite
  /\ writes = 0
  /\ stops = 0
IndexNext ==
  \/ Upsert \/ RemoveLine \/ Commit
  \/ BackUp \/ OpenTmp \/ WriteTmp \/ Rename
  \/ StopWrite
IndexSpec == IndexInit /\ [][IndexNext]_indexVars

(***************************************************************************)
(* Properties.                                                             *)
(***************************************************************************)
\* Types.  What the code wrote last is empty or canonical (parsing and serializing it again
\* gives the same text, D-07), keeps each memory on one line with its own mem_id last,
\* and keeps each hook within hookMaxLen.
WellFormed ==
  /\ writes \in 0..MaxWrites /\ stops \in 0..MaxStops
  /\ op.pc \in {"idle", "prev", "open", "write", "rename"}
  /\ DOMAIN disk \subseteq {Main, Bak, Tmp(Main), Tmp(Bak)}
  /\ LET lines == ParseIndex(GetFolder(Main))
     IN  /\ Exists(Main) => disk[Main] \in {<<>>, SerializeIndex(lines)}
         /\ \A i \in DOMAIN lines :
              /\ \E m \in Mems : lines[i].key = Key(m) /\ lines[i].name = <<m>>
              /\ Len(lines[i].hook) <= HookMax

\* Whatever a memory's brief contains, and wherever a writer dies, a reader of
\* long-term-memory.md sees the list before a write or after it: the file implements the
\* list (writeIndexAtomic's comment: every index write is crash-safe, D-06).
Lists == INSTANCE IndexLines WITH
  Memories <- Mems,
  Briefs <- {CapLen(Sanitized(brief), HookMax) : brief \in Descriptions},
  list <- seen
IndexAtomic == Lists!ListSpec

\* Whenever the index changes, .bak holds what it was before.
BackedUp ==
  [][Exists(Main) /\ disk'[Main] # disk[Main] => Bak \in DOMAIN disk' /\ disk'[Bak] = disk[Main]]_disk
=============================================================================
