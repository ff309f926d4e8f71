---------------------------- MODULE MCServerSync ----------------------------
(* Instances of ServerSync for TLC.                                        *)
EXTENDS ServerSync, TLC

CONSTANTS s1, s2, nobody

(* Who meets whom; s2 is also the task that looks at servers being built.  *)
Meet(one, two) == s1 :> one @@ s2 :> two
MCMenus ==
    {Meet({"changeip", "rebuild", "refresh"}, {"traffic"}),
     Meet({"upgrade", "refresh"}, {"alltraffic", "traffic"}),
     Meet({"suspend", "unsuspend", "rebuild"}, {"hourly", "start"}),
     Meet({"reboot", "restart"}, {"stop", "restore"}),
     Meet({"addip", "pardon"}, {"chpass", "webip"}),
     Meet({"delete", "mute"}, {"gift", "usage"}),
     Meet({"freeip", "remove"}, {})}
=============================================================================
