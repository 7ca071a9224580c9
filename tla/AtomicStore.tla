---------------------------- MODULE AtomicStore ----------------------------
(* What an experiment store promises its users.  A committed index changes
   only as a whole, by one commit of a process that works on the current
   one; opening, closing and dying never change it.  An object, once known,
   stays known, and a pruned payload never comes back. *)
EXTENDS Integers

CONSTANTS Object, Blob, Limits, None

VARIABLES index,    \* the committed index
          view      \* the index the lease's holder works on, or None

aVars == <<index, view>>

Index == [gen : Nat, known : SUBSET Object, avail : SUBSET Object,
          recipes : SUBSET Blob, limit : Limits]

Succeeds(new, old) ==
    /\ new.gen = old.gen + 1
    /\ old.known \subseteq new.known
    /\ new.avail \subseteq old.avail \cup (new.known \ old.known)

Init ==
    /\ index \in Index /\ index.gen = 0 /\ index.known = {} /\ index.avail = {}
    /\ view = None

\* _Store.__init__ and _Persistence.close
Open == view = None /\ view' = index /\ UNCHANGED index
Leave == view' = None /\ UNCHANGED index

\* _Store.commit
Commit ==
    /\ view = index
    /\ index' \in Index /\ Succeeds(index', index)
    /\ view' = index'

Next == Open \/ Leave \/ Commit

Spec == Init /\ [][Next]_aVars
=============================================================================
