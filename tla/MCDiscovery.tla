---------------------------- MODULE MCDiscovery -----------------------------
EXTENDS Discovery, TLC
Setting(l, p, v, t) == [tiers |-> l, proxied |-> p, views |-> v, terse |-> t]
MCSettings ==
    {Setting(<< <<"u">> >>, FALSE, 0, FALSE), Setting(<< <<"h">> >>, FALSE, 1, TRUE),
     Setting(<< <<"h">> >>, FALSE, 0, FALSE), Setting(<< <<"h", "g">> >>, TRUE, 0, TRUE),
     Setting(<< <<"x", "g">>, <<"h">> >>, TRUE, 0, TRUE)}
MCScheme == [u |-> "udp", h |-> "http", g |-> "http", x |-> "unknown"]
Cast(with, deafs) == [with |-> with, deaf |-> deafs]
MCCasts ==
    {Cast({}, {}), Cast({"adder"}, {"loop6"}), Cast({"bootstrap"}, {"loop4", "loop6"})}
=============================================================================
