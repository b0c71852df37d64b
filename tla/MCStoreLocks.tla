---------------------------- MODULE MCStoreLocks ----------------------------
(***************************************************************************)
(* An instance of StoreLocks: a call of a process that has an additional   *)
(* store, and a second call of the same process, of another one with the   *)
(* same stores, or of the owner of the additional store.                   *)
(***************************************************************************)
EXTENDS StoreLocks

MCProcsOf == [t \in Thread |-> IF t = 1 THEN {"p"} ELSE Proc]

\* The additional store has both a layer and an image, or nothing (if its owner
\* makes the second call), and the main one has both a layer and a container, or
\* neither.
MCInit ==
    /\ Init
    /\ disk[<<"main", "containers">>] = disk[<<"main", "layers">>]
    /\ disk[<<"additional", "images">>] = disk[<<"additional", "layers">>]
    /\ disk[<<"additional", "containers">>] = {}
    /\ proc[2] # "w" => disk[<<"additional", "layers">>] = Key

MCSpec == MCInit /\ [][Next]_vars

\* What a thread does with a store that it has locked, it does as soon as it can,
\* and so it releases a lock: no other thread can tell when it does, and none that
\* waits for the lock could have gone on before.
Prompt(t) ==
    /\ Busy(t)
    /\ \/ next(t).op \in {"return", "unlock"}
       \/ next(t).op \in {"find", "need", "hit", "miss", "put", "drop"} /\ Holds(t, fileOf(t))

AtOnce ==
    \A t \in Thread :
        Prompt(t) /\ (\A u \in Thread : u < t => ~Prompt(u)) => todo'[t] # todo[t]

\* One of two calls that wait for each other, or of which one sees the other's
\* changes, locks a store for writing.
Writes(prog) ==
    \E i \in 1..Len(prog) : prog[i].op = "lock" /\ prog[i].at \in {"layers", "images", "containers"}

OneWriter == todo[2] = <<>> /\ todo'[2] # <<>> => Writes(todo'[2])

=============================================================================
