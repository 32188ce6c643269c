----------------------------- MODULE MCNetState -----------------------------
(* NetState on a few blocks with one change of each kind to choose from. *)
EXTENDS NetState, TLC

Admin(k, v) == [type |-> "Admin", key |-> k, value |-> v]
BlockReward(v) == [type |-> "BlockReward", id |-> v]
NewValidator(v) == [type |-> "NewValidator", id |-> v]
Slash(v, n) == [type |-> "Slash", id |-> v, amount |-> n]
Transfer(v, w, n) == [type |-> "Transfer", from |-> v, to |-> w, amount |-> n]
PlotEvent(ps, t, e) == [type |-> "PlotEvent", plots |-> ps, tick |-> t, event |-> e]

ADMIN == <<"ADMIN", "id">>
K == <<"key", "k">>

MCAdminBins == {ADMIN, K}
MCAdminValues == {"root", "v0", "v1", "v2"}

MCGenesis == <<Admin(ADMIN, "root"), Admin(K, "v0"), BlockReward("val")>>

\* Every kind of change, with pairs whose order matters when they are undone.
MCMutations ==
    {<<BlockReward("new"), Transfer("val", "new", 3)>>,
     <<Admin(K, "v1"), Admin(K, "v2"), PlotEvent({"p", "q"}, 1, "f")>>,
     <<Admin(K, None), NewValidator("new"), Slash("val", 12), PlotEvent({"p"}, 0, "e")>>}

Symmetry == Permutations(Blocks \ {Genesis})

=============================================================================
