---------------------------- MODULE MCListeners ----------------------------
(* Listeners on a small instance: messages on channels of one and two      *)
(* names, and subscriptions of every shape that can select them or not.    *)
EXTENDS Listeners

CONSTANTS s1, s2, s3

MCAddresses == {s1, s2, s3}
MCChannels  == {<<"", "foo">>, <<"", "foo", "bar">>, <<"", "quux", "bar", "baz">>}
MCPatterns  == {<<"", "foo">>, <<"", "foo", "bar">>, <<"", "*">>, <<"", "**">>,
                <<"", "foo", "*">>, <<"", "foo", "**">>}
MCSymmetry  == Permutations(MCAddresses)
=============================================================================
