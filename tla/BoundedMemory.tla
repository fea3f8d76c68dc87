------------------------------ MODULE BoundedMemory -----------------------------
(***************************************************************************)
(* What an arm of the experiment promises about the memory its prompts are *)
(* made of: an entry is learnt at the end of an attempt, the oldest leave  *)
(* when there are too many, a prompt shows the newest, and every arm       *)
(* starts from the same memory of the clean prefix, to which only the      *)
(* contaminated arm has the injected root added.  Entries are numbered in  *)
(* the order in which they are inserted.                                   *)
(***************************************************************************)
EXTENDS Naturals, FiniteSets

CONSTANTS
  Capacity,  \* active_capacity
  Window     \* entries a prompt shows at most

VARIABLES
  view,      \* the entries a reader may be shown
  prompt,    \* those the attempt under way is shown
  working,   \* an attempt is under way
  saved,     \* views at the ends of prefix trials an arm may start from
  injected   \* this arm is the one with the root in its memory

boundedVars == <<view, prompt, working, saved, injected>>

Newer(n, set) == \A e \in set : e < n
DropOldest(set) == {e \in set : \E x \in set : x < e}

\* A prompt shows as much of the memory as the window takes, the newest of it.
Shows(shown, memory) ==
  /\ shown \subseteq memory
  /\ \A e \in memory \ shown, s \in shown : e < s
  /\ Cardinality(shown) <= Window
  /\ shown # memory => Cardinality(shown) = Window

-------------------------------------------------------------------------------
BoundedInit ==
  /\ view = {} /\ prompt = {} /\ ~ working
  /\ saved = {} /\ ~ injected

Attempt ==
  /\ ~ working /\ working'
  /\ Shows(prompt', view)
  /\ UNCHANGED <<view, saved, injected>>

Stop == ~ working' /\ prompt' = {}

GiveUp ==
  /\ working /\ Stop
  /\ saved' \in {saved, saved \cup {view}}
  /\ UNCHANGED <<view, injected>>

Learn ==
  /\ working
  /\ \E n \in view' :
       /\ Newer(n, view)
       /\ LET grown == view \cup {n} IN
            view' = IF Cardinality(grown) > Capacity THEN DropOldest(grown) ELSE grown
  /\ \/ working' /\ Shows(prompt', view') /\ saved' = saved
     \/ Stop /\ saved' \in {saved, saved \cup {view'}}
  /\ UNCHANGED injected

\* One checkpoint is selected; the arms start from it one after another.
Choose ==
  /\ ~ working
  /\ \E v \in saved : saved' = {v}
  /\ UNCHANGED <<view, prompt, working, injected>>

Start ==
  /\ ~ working
  /\ \E v \in saved :
       \/ ~ injected' /\ view' = v
       \/ injected' /\ \E root \in view' : Newer(root, v) /\ view' = v \cup {root}
  /\ UNCHANGED <<prompt, working, saved>>

BoundedNext == Attempt \/ GiveUp \/ Learn \/ Choose \/ Start

BoundedSpec == BoundedInit /\ [][BoundedNext]_boundedVars
===============================================================================
