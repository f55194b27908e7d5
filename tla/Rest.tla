-------------------------------- MODULE Rest --------------------------------
(***************************************************************************)
(* All REST requests that meet in the database, as the HTTP server runs    *)
(* them: each in a goroutine of its own.                                   *)
(***************************************************************************)
EXTENDS Accounts, Lists

restVars == <<vars, accountVars, listVars>>

RestInit == Init /\ AccountsInit /\ ListsInit

RestNext ==
    \/ \E r \in Req : Request(r) /\ UNCHANGED <<accountVars, listVars>>
    \/ \E r \in Req : AccountRequest(r) /\ UNCHANGED listVars
    \/ \E r \in Req : ListRequest(r) /\ UNCHANGED accountVars
    \/ Tick /\ UNCHANGED listVars
    \/ Answered /\ UNCHANGED <<accountVars, listVars>>

RestSpec == RestInit /\ [][RestNext]_restVars
=============================================================================
