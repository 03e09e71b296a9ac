----------------------------- MODULE CacheBase -----------------------------
(***************************************************************************)
(* What the two caches have in common.  Neither class is meant to be       *)
(* shared between threads, so an action is a whole call; the maps are      *)
(* functions on the keys they hold.                                        *)
(***************************************************************************)
EXTENDS Integers, FiniteSets, SequencesExt

CONSTANTS Keys, Values,
          Miss    \* the -1 of a get that finds nothing

VARIABLES cap,    \* _cap
          res,    \* what the last get returned
          recent, \* ghost: every key used so far, the last used first
          written \* ghost: the last value put for each key, Miss if none

baseVars == <<cap, res, recent, written>>

BaseInit(caps) == /\ cap \in caps
                  /\ res = Miss
                  /\ recent = <<>>
                  /\ written = [k \in Keys |-> Miss]

\* f with x mapped to y, and f without x.
With(f, x, y) == [z \in DOMAIN f \cup {x} |-> IF z = x THEN y ELSE f[z]]
Without(f, x) == [z \in DOMAIN f \ {x} |-> f[z]]

Use(k) == recent' = <<k>> \o RemoveFirst(recent, k)

Written(k, v) == written' = [written EXCEPT ![k] = v]

BaseTypeOK == /\ cap \in Int
              /\ res \in Values \cup {Miss}
              /\ recent \in Seq(Keys)
              /\ written \in [Keys -> Values \cup {Miss}]
=============================================================================
