--------------------------- MODULE TokenContract ---------------------------
(* What the users of agentjail_phantom::TokenStore may rely on, whatever    *)
(* store or cache answers them: a token resolves to the record it was       *)
(* issued with, a withdrawn token never resolves again, and a token nobody  *)
(* asked to revoke resolves until it expires, as long as the database       *)
(* answers.                                                                 *)
EXTENDS Naturals

CONSTANTS Tokens,      \* 256-bit token values, drawn at random
          Records,     \* what a token may stand for
          None         \* Rust's None

VARIABLES granted,     \* token -> the record it was issued with, or None
          closing,     \* tokens somebody has started to revoke
          withdrawn,   \* tokens whose revocation is in force
          trouble,     \* the database has failed at least one call
          now,         \* wall clock
          answer       \* the last reply of lookup: a token and a record or None

absVars == <<granted, closing, withdrawn, trouble, now, answer>>

\* TokenRecord::is_expired
Lapsed(rec, time) == rec.expires # None /\ time >= rec.expires

AbsInit ==
    /\ granted = [t \in Tokens |-> None]
    /\ closing = {} /\ withdrawn = {}
    /\ trouble = FALSE
    /\ now = 0
    /\ answer.rec = None

\* issue: the token is new, and its record never changes afterwards.
Grant ==
    /\ \E t \in Tokens :
          /\ granted[t] = None /\ granted'[t] \in Records
          /\ granted' = [granted EXCEPT ![t] = granted'[t]]
    /\ trouble => trouble'
    /\ UNCHANGED <<closing, withdrawn, now, answer>>

\* revoke and revoke_session take force in two stages; neither is undone.
Withdraw ==
    /\ closing \subseteq closing' /\ withdrawn \subseteq withdrawn'
    /\ withdrawn' \subseteq closing'
    /\ trouble => trouble'
    /\ UNCHANGED <<granted, now, answer>>

\* lookup finds the token.
Resolve ==
    /\ \E t \in Tokens : /\ granted[t] # None /\ t \notin withdrawn
                         /\ answer'.tok = t /\ answer'.rec = granted[t]
    /\ UNCHANGED <<granted, closing, withdrawn, trouble, now>>

\* lookup answers None.
Refuse ==
    /\ answer'.rec = None
    /\ \E t \in Tokens : /\ answer'.tok = t
                         /\ \/ trouble'
                            \/ granted[t] = None
                            \/ t \in closing
                            \/ Lapsed(granted[t], now)
    /\ trouble => trouble'
    /\ UNCHANGED <<granted, closing, withdrawn, now>>

Fail == trouble' /\ UNCHANGED <<granted, closing, withdrawn, now, answer>>

Pass == now' > now /\ UNCHANGED <<granted, closing, withdrawn, trouble, answer>>

AbsNext == Grant \/ Withdraw \/ Resolve \/ Refuse \/ Fail \/ Pass

Contract == AbsInit /\ [][AbsNext]_absVars
=============================================================================
