----------------------------- MODULE MCAuthorities -----------------------------
(* One company with one responsible; days of two ticks, so that a certificate *)
(* may end at noon while powers of attorney end at midnight.                  *)
EXTENDS Authorities, TLC

CONSTANTS q1, q2, r1, p1, p2, c1, company

MCCompanyOf == [x \in {r1, p1, p2} |-> company]
MCScope == {<<c1, company>>}
MCWindow == c1 :> [from |-> 0, until |-> 3]
MCPeriods == {[from |-> 0, until |-> 3], [from |-> 1, until |-> 8]}
MCSymmetry == Permutations({q1, q2}) \union Permutations({p1, p2})
=============================================================================
