----------------------------- MODULE MCCommand -----------------------------
(* Command for TLC: the scripts of session.go, without the commands that   *)
(* repeat a kind already there. initModule is cut in two, so that few      *)
(* commands reach its end; connect and scan come in every order with it.   *)
EXTENDS Command

toEchoOff == <<"probe", "reset", "echoOff">>
settings == <<"option", "plain">>
newSettings == <<"option", "setOption", "plain">>
getVersions == <<"version">>
connect == <<"plain", "address", "plain">>
scan == <<"scan">>

AllScripts == {toEchoOff, settings, newSettings, getVersions, connect, scan}
ConnectOnly == {connect}
=============================================================================
