------------------------------ MODULE Startup ------------------------------
(***************************************************************************)
(* A server from its command line to its first logins: Config builds the   *)
(* configuration, build() makes a server of it (server.rs, auth.rs), and   *)
(* Admission serves with it.  An application that embeds the server may    *)
(* load the file, too, and add an authentication hook.                     *)
(***************************************************************************)
EXTENDS Config, Admission

VARIABLE granted  \* history: whom the file and the options let in

startupVars == <<configVars, vars, granted>>

NoConfig == [allowAnonymous |-> FALSE, password |-> FALSE, keyFiles |-> FALSE,
             keys |-> FALSE, hook |-> FALSE, strict |-> FALSE, allow |-> {},
             osUser |-> NoUser]

\* AuthConfig::from_config and the allowlist of build().  A key file may hold no
\* valid key; an inline key is one.
FromConfig(found, hook, os) ==
    [allowAnonymous |-> built.anonymous,
     password |-> Given(built.field, "password"),
     keyFiles |-> ListOf(built.field, "authorized-keys") \o ListOf(built.field, "pubkey") # <<>>,
     keys |-> found \/ ListOf(built.field, "pubkey") # <<>>,
     hook |-> hook,
     strict |-> Given(built.field, "strict"),
     allow |-> Range(ListOf(built.field, "allow-user")),
     osUser |-> os]

\* What the file and the options say of logins: somebody may log in with the
\* typed password, with a key that was typed or that the file names and does not
\* disable, or with nothing at all if neither mentions authentication; and the
\* names that are typed, if there are any, are the only ones.
Grants ==
    LET keys == WantedList("authorized-keys") \o WantedList("pubkey") # <<>>
        password == Given(typed, "password")
    IN [methods |-> {m \in {"none", "password", "key"} :
                       \/ m = "none" /\ ~SaysAuth /\ ~password /\ ~keys
                       \/ m = "password" /\ password
                       \/ m = "key" /\ keys},
        users |-> Range(ListOf(typed, "allow-user")),
        strict |-> Given(typed, "strict-user"),
        intact |-> dir = "here" \/ NoEmptyValue]

NoGrants == [methods |-> {}, users |-> {}, strict |-> FALSE, intact |-> TRUE]

\* build(); what it was made from is forgotten.
Build ==
    /\ stage = "configured"
    /\ \E found, hook \in BOOLEAN, os \in Users \cup {NoUser} :
         /\ found => ListOf(built.field, "authorized-keys") # <<>>
         /\ Buildable(FromConfig(found, hook, os))
         /\ config' = FromConfig(found, hook, os)
    /\ granted' = Grants
    /\ stage' = "serving"
    /\ text' = <<>> /\ typed' = NoFields /\ args' = NoFields /\ dir' = "here"
    /\ home' = TRUE /\ built' = Defaults
    /\ UNCHANGED <<tokens, line, disabled>>
    /\ UNCHANGED <<accepting, permits, waiting, phase, holds, authed, attempt, login>>

\* build() fails: strict mode knows nobody; a host key cannot be loaded or generated,
\* or there is none; or a key file or a key cannot be read.
BuildFails ==
    /\ stage = "configured"
    /\ stage' = "refused"
    /\ UNCHANGED <<text, typed, dir, home, tokens, args, line, disabled, built, granted, vars>>

StartupInit ==
    /\ ConfigInit
    /\ granted = NoGrants
    /\ config = NoConfig
    /\ ServerInit

StartupNext ==
    \/ ConfigNext /\ UNCHANGED <<vars, granted>>
    \/ Build
    \/ BuildFails
    \/ stage = "serving" /\ Next /\ UNCHANGED <<configVars, granted>>

StartupSpec == StartupInit /\ [][StartupNext]_startupVars

-----------------------------------------------------------------------------
\* From the text to the login: whoever is logged in has a name that the options
\* admit, even with a hook and if the operating system does not tell its user;
\* and without a hook the method is one that the file and the options grant,
\* wherever in the file the line stands that closes the server or disables keys
\* (but saved options with an empty value are not the ones that were typed).
LoginsAsDescribed ==
    granted.intact => \A c \in Conns : authed[c] =>
        /\ granted.strict \/ granted.users # {} =>
             \/ login[c].user \in granted.users
             \/ granted.strict /\ login[c].user = config.osUser
        /\ ~config.hook => login[c].method \in granted.methods
=============================================================================
