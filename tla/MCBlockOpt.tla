----------------------------- MODULE MCBlockOpt -----------------------------
(***************************************************************************)
(* Control-flow graphs of four blocks with up to two branches and without  *)
(* phis, where block 2 may be more than a jump; and all those of three     *)
(* with up to two phis and branches, to which the fourth block adds one    *)
(* that nothing jumps to.                                                  *)
(***************************************************************************)
EXTENDS BlockOpt

Bare == {p \in Plans : ~p.body}

Branches(plan) == {b \in Block : plan[b].kind = "If"}

Plain ==
  LET plans == {[bare EXCEPT ![2] = p] : bare \in [Block -> Bare], p \in Plans}
  IN {[plan |-> plan, phis |-> {}] : plan \in {x \in plans : Cardinality(Branches(x)) <= 2}}

Small == {p \in Plans : N \notin ToSet(p.to)}
Ending == [kind |-> "Return", to |-> <<>>, body |-> FALSE]

WithPhis ==
  {[plan |-> [b \in Block |-> IF b = N THEN Ending ELSE small[b]], phis |-> P] :
     small \in [Block \ {N} -> Small], P \in SUBSET (Block \ {Entry, N})}

MCFunctions == Plain \cup {fn \in WithPhis : \A b \in fn.phis : PredsOf(fn.plan, b) # <<>>}
=============================================================================
