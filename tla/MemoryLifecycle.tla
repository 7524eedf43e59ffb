-------------------------- MODULE MemoryLifecycle ---------------------------
(***************************************************************************)
(* What the store promises about the age of a memory, with no database, no *)
(* files and no processes.  A memory that is used is recent.  Left alone,  *)
(* it is archived after T1, becomes a tombstone after T2, is marked for    *)
(* deletion after T3, and is destroyed only when its mark is older than    *)
(* Grace.  Using it at any stage makes it recent again with no mark.  A    *)
(* pinned memory never ages.                                               *)
(***************************************************************************)
EXTENDS Integers

CONSTANTS Memories, Pinned, T1, T2, T3, Grace

VARIABLES life, now

NoMark == -1
Used(t) == [stage |-> "recent", used |-> t, mark |-> NoMark]
Known == DOMAIN life
Age(m) == now - life[m].used

Begin == life = <<>> /\ now = 0

PassTime == now' > now /\ UNCHANGED life

\* Stored, stored again, or reminded of.
Use(m) ==
  /\ life' = [x \in Known \union {m} |-> IF x = m THEN Used(now) ELSE life[x]]
  /\ UNCHANGED now

Archive(m) ==
  /\ m \in Known \ Pinned
  /\ life[m].stage = "recent" /\ Age(m) > T1
  /\ life' = [life EXCEPT ![m].stage = "long_term"]
  /\ UNCHANGED now

Fade(m) ==
  /\ m \in Known
  /\ life[m].stage = "long_term" /\ Age(m) > T2
  /\ life' = [life EXCEPT ![m].stage = "tombstone"]
  /\ UNCHANGED now

\* The mark may be a little older than the step that sets it, yet never before T3.
Mark(m) ==
  /\ m \in Known
  /\ life[m].stage = "tombstone" /\ life[m].mark = NoMark
  /\ \E t \in 0..now :
       t - life[m].used > T3 /\ life' = [life EXCEPT ![m].mark = t]
  /\ UNCHANGED now

Destroy(m) ==
  /\ m \in Known
  /\ life[m].stage = "tombstone" /\ life[m].mark # NoMark
  /\ now - life[m].mark > Grace
  /\ life' = [x \in Known \ {m} |-> life[x]]
  /\ UNCHANGED now

Step ==
  \/ PassTime
  \/ \E m \in Memories : Use(m) \/ Archive(m) \/ Fade(m) \/ Mark(m) \/ Destroy(m)

LifecycleSpec == Begin /\ [][Step]_<<life, now>>
=============================================================================
