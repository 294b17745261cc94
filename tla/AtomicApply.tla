---------------------------- MODULE AtomicApply ----------------------------
(***************************************************************************)
(* What Apply promises (CONTEXT.md, Apply; ADR 0005): the Staged Changes   *)
(* of a Session take effect together, in the order staged, in one step     *)
(* that also empties the bag, or they do not take effect at all.           *)
(*                                                                         *)
(* There is no transaction here, no statement and no failure: the Database *)
(* changes when another program releases a lock, when a Session without    *)
(* Staged Changes runs SQL, and when a whole bag is applied.               *)
(***************************************************************************)
EXTENDS StagedChanges, Sequences

CONSTANT SessionId

VARIABLES
  usable,   \* Sessions that can reach the Database
  staged,   \* bag of each Session
  stale,    \* Sessions that wrote and have not read their grids again
  held,     \* Row Identities other programs have locked
  db        \* the Table

avars == <<usable, staged, stale, held, db>>

Init ==
  /\ usable = {} /\ stale = {} /\ held = {}
  /\ staged = [s \in SessionId |-> <<>>]
  /\ db \in [Key -> Slot]

\* The Table after the first i changes of a bag.
After(bag) ==
  LET table[i \in 0..Len(bag)] ==
        IF i = 0 THEN db ELSE ApplyChange(bag[i], table[i - 1])
  IN  table

\* A session applies its whole bag; if it does not learn that it did, it keeps
\* the bag and can never use it again.
ApplyBag(s, learns) ==
  LET bag == staged[s]
  IN  /\ s \in usable
      /\ IF learns
           THEN /\ staged' = [staged EXCEPT ![s] = <<>>]
                /\ stale' = {s} /\ UNCHANGED usable
           ELSE usable' = usable \ {s} /\ UNCHANGED <<staged, stale>>
      /\ \A i \in 1..Len(bag) : Succeeds(bag[i], After(bag)[i - 1])
      /\ db' = After(bag)[Len(bag)]
      /\ UNCHANGED held

RunSql(s, k, slot) ==
  /\ s \in usable /\ staged[s] = <<>> /\ k \notin held
  /\ db' = [db EXCEPT ![k] = slot]
  /\ stale' = {s}
  /\ UNCHANGED <<usable, staged, held>>

Reread(s) == stale' = stale \ {s} /\ UNCHANGED <<usable, staged, held, db>>

\* Staging, unstaging and discarding change one bag and nothing else.
Stage(s, bag) ==
  /\ stale = {}
  /\ staged' = [staged EXCEPT ![s] = bag]
  /\ UNCHANGED <<usable, stale, held, db>>

Open(s)  == usable' = usable \cup {s} /\ UNCHANGED <<staged, stale, held, db>>
Close(s) ==
  /\ usable' = usable \ {s}
  /\ staged' = [staged EXCEPT ![s] = <<>>]
  /\ stale' = stale \ {s}
  /\ UNCHANGED <<held, db>>
Lose(s)  == usable' = usable \ {s} /\ UNCHANGED <<staged, stale, held, db>>

\* Other programs lock rows and, when they end, have written one of them.
OtherLock(K) == held' = held \cup K /\ UNCHANGED <<usable, staged, stale, db>>
OtherEnd(k, slot, K) ==
  /\ k \in held /\ k \in K
  /\ db' = [db EXCEPT ![k] = slot]
  /\ held' = held \ K
  /\ UNCHANGED <<usable, staged, stale>>

Next ==
  \/ OtherLock(held' \ held)
  \/ \E k \in Key : OtherEnd(k, db'[k], held \ held')
  \/ \E s \in SessionId :
       \/ Stage(s, staged'[s])
       \/ Open(s) \/ Close(s) \/ Lose(s) \/ Reread(s)
       \/ \E k \in Key : RunSql(s, k, db'[k])
       \/ \E learns \in BOOLEAN : ApplyBag(s, learns)

Spec == Init /\ [][Next]_avars
=============================================================================
