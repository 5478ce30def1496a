----------------------------- MODULE MCStartup -----------------------------
(* An instance of Startup for model checking.                              *)
EXTENDS Startup

\* At least one line of each kind that parse tells apart.
Lines ==
    {[key |-> "passwordauthentication", value |-> "yes"],
     [key |-> "passwordauthentication", value |-> "bad"],
     [key |-> "pubkeyauthentication", value |-> "yes"],
     [key |-> "pubkeyauthentication", value |-> "no"],
     [key |-> "authorizedkeysfile", value |-> "rel"],
     [key |-> "hostkey", value |-> "rel"],
     [key |-> "devtunnelbin", value |-> "rel"],
     [key |-> "logingracetime", value |-> "1m"],
     [key |-> "logingracetime", value |-> "1h"],
     [key |-> "devtunnellabel", value |-> "a"],
     [key |-> "devtunnellabel", value |-> "b"],
     [key |-> "devtunnellabel", value |-> "bad"],
     [key |-> "devtunneltimeout", value |-> "0"],
     [key |-> "acceptenv", value |-> "a"],
     [key |-> "allowtcpforwarding", value |-> "local"],
     [key |-> "forcecommand", value |-> "a"],
     [key |-> "subsystem", value |-> "a"]}

UpToTwoLines == {<<>>} \cup {<<l>> : l \in Lines} \cup {<<l, m>> : l, m \in Lines}

\* Options, at most two of them at a time.
Flags ==
    {<<"config", "rel">>, <<"config", "missing">>, <<"no-config", "on">>,
     <<"password", "a">>, <<"authorized-keys", <<"rel">>>>, <<"pubkey", <<"k">>>>, <<"host-key", <<"rel", "b">>>>,
     <<"strict-user", "on">>, <<"allow-user", <<"u1">>>>, <<"login-grace", "20">>,
     <<"devtunnel-enable", "on">>, <<"devtunnel-disable", "on">>,
     <<"devtunnel-label", <<"a", "a">>>>, <<"devtunnel-label", <<"bad">>>>,
     <<"devtunnel-id", "bad">>, <<"login-grace", "1m">>, <<"shell", "">>, <<"shell", "b">>,
     <<"no-forward", "on">>}

UpToTwoFlags ==
    {NoFields} \cup {With(With(NoFields, f[1], f[2]), g[1], g[2]) : f, g \in Flags}
=============================================================================
