---------------------------- MODULE MCSshSession ----------------------------
(* SshSession with three key exchange methods, of which one has its group  *)
(* from the server, and servers that offer them in other orders.           *)
EXTENDS SshSession

Kexs == <<"group14", "exchange", "group1">>
Hostkeys == <<"rsa", "dss">>
Crypts == <<"aes", "3des">>
FixedGroups == {"group14", "group1"}

Offer(k, h, c, f) == [kex |-> k, hostkey |-> h, crypt |-> c, follows |-> f]
SomeOffers ==
    {Offer(<<"group1", "group14">>, <<"dss", "rsa">>, <<"3des", "aes">>, f) : f \in BOOLEAN}
    \cup {Offer(<<"group1", "exchange">>, <<"dss">>, <<"3des">>, f) : f \in BOOLEAN}
    \cup {Offer(<<"exchange">>, <<"rsa">>, <<"aes">>, TRUE),
          Offer(<<"group1">>, <<"rsa">>, <<"arcfour">>, FALSE)}
=============================================================================
