--------------------------- MODULE ConnectionLife ---------------------------
(***************************************************************************)
(* What the server promises for the Session object of a connection: it     *)
(* waits for a client, is open once, is closed once, leaves the Service    *)
(* after that, and is destroyed only while it waits or when it has left.   *)
(* An address is used again only after the object there was destroyed.     *)
(***************************************************************************)
CONSTANT Sessions   \* addresses of Session objects

VARIABLE state      \* per address

States == {"none", "waiting", "open", "closing", "released"}

LifeInit == state = [s \in Sessions |-> "none"]

Move(s, from, to) ==
  /\ state[s] = from
  /\ state' = [state EXCEPT ![s] = to]

Create(s) == Move(s, "none", "waiting")
Open(s) == Move(s, "waiting", "open")
Close(s) == Move(s, "open", "closing")
Release(s) == Move(s, "closing", "released")
Destroy(s) == Move(s, "waiting", "none") \/ Move(s, "released", "none")

LifeNext ==
  \E s \in Sessions :
    Create(s) \/ Open(s) \/ Close(s) \/ Release(s) \/ Destroy(s)

LifeSpec == LifeInit /\ [][LifeNext]_state
=============================================================================
