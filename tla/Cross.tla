-------------------------------- MODULE Cross --------------------------------
(***************************************************************************)
(* Wrapped tokens of other chains, cross (explorer/cross.go,               *)
(* storage/cross.go): a deploy names an administrator, who alone mints;    *)
(* any holder of any drc-20 token burns it.                                *)
(***************************************************************************)
EXTENDS Tokens

CONSTANT Wrapped     \* ticks "W<tick>(WRAPPED-<tick>)"

ASSUME CrossAssumption == Wrapped \subseteq Ticks

\* VerifyCrossDeploy lets a wrapped tick pass that is there; drc20_collect
\* refuses it.
CanCrossDeploy(s, t) == ~HasToken(s, t)

CrossDeploy(s, t, admin, h) ==
    [NewToken(s, t) EXCEPT
        !.cross = [x \in DOMAIN @ \cup {t} |->
                     IF x = t THEN [admin |-> admin, at |-> h] ELSE s.cross[x]]]

CanCrossMint(s, t, u, amt) ==
    /\ amt >= 1
    /\ HasToken(s, t) /\ t \in DOMAIN s.cross
    /\ s.cross[t].admin = u

CrossMint(s, t, to, amt, h) == MintDrc20(s, t, to, amt, h)

CanCrossBurn(s, t, u, amt) ==
    /\ amt >= 1
    /\ amt <= s.bal[t][u]
    /\ CanBurnDrc20(s, t, u, amt)

CrossBurn(s, t, u, amt, h) == BurnDrc20(s, t, u, amt, h)

\* Mutant: the tokens stay.
CrossForkRows(s, h) ==
    LET gone == {t \in DOMAIN s.cross : s.cross[t].at > h}
    IN  [s EXCEPT !.cross = [t \in DOMAIN @ \ gone |-> s.cross[t]]]

\* crossFork, and delRevert's part of it.
crossFork(s, h) ==
    LET gone == {t \in DOMAIN s.cross : s.cross[t].at > h}
    IN  [s EXCEPT !.cross = [t \in DOMAIN @ \ gone |-> s.cross[t]],
                  !.collect = [t \in DOMAIN @ \ gone |-> s.collect[t]]]
=============================================================================
