---------------------------- MODULE AccountLedger ----------------------------
(***************************************************************************)
(* What the identity session store of one CLI promises to its user: an     *)
(* account keeps its tokens until it gets new ones itself, or all accounts *)
(* are forgotten at once.                                                  *)
(***************************************************************************)
EXTENDS Naturals

CONSTANTS Accounts, Nobody

VARIABLES
    accounts,   \* the token pair saved for each account, 0 when logged out
    selected    \* the account that commands use

ledgerVars == <<accounts, selected>>

LedgerInit == selected # Nobody => accounts[selected] # 0

\* One account gets a new token pair, and no other is touched.
SaveAccount(u) ==
    /\ accounts' = [accounts EXCEPT ![u] = accounts'[u]]
    /\ accounts'[u] # 0
    /\ UNCHANGED selected

\* Also one whose session could not be saved: it has to log in again.
SelectAccount(u) ==
    /\ selected' = u
    /\ UNCHANGED accounts

\* Logging out forgets every account, then the selection; the first may fail
\* and the second not.
ForgetAccounts ==
    /\ accounts' = [u \in Accounts |-> 0]
    /\ UNCHANGED selected

Deselect ==
    /\ selected' = Nobody
    /\ UNCHANGED accounts

\* The file is rewritten in place: an interrupted write loses it all.
LoseLedger ==
    /\ accounts' = [u \in Accounts |-> 0]
    /\ selected' = Nobody

LedgerNext ==
    \/ \E u \in Accounts : SaveAccount(u) \/ SelectAccount(u)
    \/ ForgetAccounts \/ Deselect \/ LoseLedger

LedgerSpec == LedgerInit /\ [][LedgerNext]_ledgerVars
=============================================================================
