------------------------------ MODULE ConnLife ------------------------------
(***************************************************************************)
(* What IConnection promises to the services that use it, whatever         *)
(* transport is behind it: bytes that were accepted reach the socket at    *)
(* most once and only while it is there, a connection closes only when     *)
(* somebody, or a failed write, asked for it, its owner is told so exactly *)
(* once, and a connection that was asked to close does close. The last     *)
(* promise has an exception the implementation has to name: requests that  *)
(* have lapsed, because the class has lost them.                           *)
(***************************************************************************)
EXTENDS Naturals

VARIABLES asked,     \* somebody asked for the connection to be closed, in any way
          life,      \* "open", "closing" or "gone"
          accepted,  \* messages taken over from callers
          wire,      \* messages the socket has taken
          told,      \* times the close callback was called
          lapsed     \* the requests made so far are lost (an input)

vars == <<asked, life, accepted, wire, told>>

Init ==
  /\ asked = FALSE /\ life = "open"
  /\ accepted = 0 /\ wire = 0 /\ told = 0

Accept ==
  /\ accepted' \in Nat /\ accepted' > accepted
  /\ UNCHANGED <<asked, life, wire, told>>

\* A finished write, and the close it may set off.
Write ==
  /\ life # "gone"
  /\ wire' \in wire .. accepted
  /\ \/ UNCHANGED <<asked, life>>
     \/ life = "open" /\ asked' = TRUE /\ life' = "closing"
  /\ UNCHANGED <<accepted, told>>

Ask ==
  /\ ~asked /\ asked' = TRUE
  /\ life' \in {life, "closing"} /\ life # "gone"
  /\ UNCHANGED <<accepted, wire, told>>

Begin ==
  /\ asked /\ life = "open"
  /\ life' = "closing"
  /\ UNCHANGED <<asked, accepted, wire, told>>

Finish ==
  /\ life = "closing"
  /\ life' = "gone" /\ told' = told + 1
  /\ UNCHANGED <<asked, accepted, wire>>

Next == Accept \/ Write \/ Ask \/ Begin \/ Finish

\* What may never happen; and that a close which was asked for comes to its end.
Safe == Init /\ [][Next]_vars

Closes ==
  /\ WF_life(asked /\ ~lapsed /\ life = "open" /\ life' = "closing")
  /\ WF_life(life = "closing" /\ life' = "gone")

Spec == Safe /\ Closes
=============================================================================
