---------------------------- MODULE MCSshChannel ----------------------------
(* SshChannel with one channel, a window of one packet of the peer, and    *)
(* every call.  Three calls are enough for an adjustment that is put off,  *)
(* one that is half sent and repeated by another caller, and a read of     *)
(* what no longer fits into the window.                                    *)
EXTENDS SshChannel

AllOps ==
    {<<"read", <<0, 4>>>>, <<"read", <<1, 8>>>>, <<"write", <<0, 5>>>>,
     <<"flush", {0, 1}>>, <<"adjust", <<3, 1>>>>, <<"adjust", <<3, 0>>>>,
     <<"mode", "merge">>, <<"mode", "ignore">>,
     <<"eof", <<0, 0>>>>, <<"waitEof", <<0, 0>>>>, <<"waitClosed", <<0, 0>>>>,
     <<"close", <<0, 0>>>>, <<"free", <<0, 0>>>>}
=============================================================================
