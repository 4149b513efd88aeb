-------------------------- MODULE MCSubscriptions --------------------------
(* Subscriptions on a small instance: one application channel, so that     *)
(* subscriptions share it, another one, and a meta channel.                *)
EXTENDS Subscriptions, TLC

CONSTANTS app1, app2, s1, s2, s3

MCOneCaller  == {app1}
MCTwoCallers == {app1, app2}
MCAddresses  == {s1, s2, s3}
MCPatterns   == {<<"", "foo">>, <<"", "bar">>, <<"", "meta", "connect">>}
MCMeta       == {<<"", "meta", "connect">>}
MCSymmetry   == Permutations(MCAddresses)
=============================================================================
