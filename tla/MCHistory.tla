------------------------------ MODULE MCHistory ------------------------------
(***************************************************************************)
(* Constants for model checking History.                                   *)
(***************************************************************************)
EXTENDS History

CONSTANTS h1, ask, admin, old, qq, wechat, gone, group, private

\* A question in a group, a request of an administrator in private, and a message of
\* the same group that was stored when another account was configured.
MCMessages == {ask, admin, old}
MCAccount == [m \in MCMessages |-> IF m = old THEN gone ELSE qq]
MCChat == [m \in MCMessages |-> IF m = admin THEN private ELSE group]
MCAccounts == <<wechat, qq>>
=============================================================================
