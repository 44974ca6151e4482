-------------------------------- MODULE Sessions --------------------------------
(***************************************************************************)
(* What lives and ends with a login: the refresh tokens of the admins, the *)
(* chat socket of an admin's browser tab, and the phones that pushes are   *)
(* sent to.  The three keep their state apart; each of their modules has   *)
(* the logins, logouts and expiries of its own side.                       *)
(***************************************************************************)
EXTENDS AdminAccounts, PushDelivery, ChatSocket

SessionsInit == AdminsInit /\ PushInit /\ Init

SessionsNext == \/ AdminsNext /\ UNCHANGED <<pushVars, vars>>
                \/ PushNext /\ UNCHANGED <<adminVars, vars>>
                \/ Next /\ UNCHANGED <<adminVars, pushVars>>

SessionsSpec == SessionsInit /\ [][SessionsNext]_<<adminVars, pushVars, vars>>
=============================================================================
