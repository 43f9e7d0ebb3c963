---------------------------- MODULE OneShotToken ----------------------------
(***************************************************************************)
(* What a one-shot token promises, however it is kept: it is issued for a  *)
(* context, and one request that presents that context uses it, at most    *)
(* once, unless it is withdrawn before (it expires, is burned or lost).    *)
(* OAuthStates and Confirmations implement this specification.             *)
(***************************************************************************)
CONSTANTS Tokens, Requests, Contexts, None

VARIABLES
    context,   \* what a token was issued for
    open,      \* tokens that can still be used
    uses       \* who used a token, presenting which context
oneShotVars == <<context, open, uses>>

OneShotInit ==
    /\ context = [t \in Tokens |-> None]
    /\ open = {}
    /\ uses = [t \in Tokens |-> {}]

Issue(t, c) ==
    /\ context[t] = None
    /\ context' = [context EXCEPT ![t] = c]
    /\ open' = open \cup {t}
    /\ UNCHANGED uses

Use(t, r) ==
    /\ t \in open
    /\ open' = open \ {t}
    /\ uses' = [uses EXCEPT ![t] = @ \cup {<<r, context[t]>>}]
    /\ UNCHANGED context

Withdraw ==
    /\ open' \subseteq open
    /\ UNCHANGED <<context, uses>>

OneShotNext ==
    \/ Withdraw
    \/ \E t \in Tokens, c \in Contexts : Issue(t, c)
    \/ \E t \in Tokens, r \in Requests : Use(t, r)

OneShotSpec == OneShotInit /\ [][OneShotNext]_oneShotVars

\* A token has one use, by a request that presents its context, and then or
\* before it is issued it is not open.
UsedOnce ==
    \A t \in Tokens :
        /\ t \in open => context[t] # None /\ uses[t] = {}
        /\ \A u, v \in uses[t] : u = v /\ u[2] = context[t]
=============================================================================
