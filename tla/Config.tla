------------------------------ MODULE Config -------------------------------
(***************************************************************************)
(* How a server gets its configuration (main.rs, sshd_config.rs,           *)
(* config.rs): from defaults, then a configuration file, read line by      *)
(* line, then the options of the command line.  A server that Windows      *)
(* launches at login has its options from the registry, where `service     *)
(* enable` saved those of an earlier command line, and runs in another     *)
(* working directory.                                                      *)
(*                                                                         *)
(* The configuration is a partial function: a field outside its domain has *)
(* its default.  Fields are named after the options that set them.  A path *)
(* is absolute, or "rel", which names a file of the working directory; the *)
(* file is then called by that directory.                                  *)
(***************************************************************************)
EXTENDS Naturals, Sequences, FiniteSets, Functions

CONSTANTS
    Texts,         \* what the configuration file may say: sequences of lines
    CommandLines,  \* the options that may be typed
    MaxSeconds,    \* the largest number of seconds (u64::MAX in the code)
    MaxLabels      \* how many different labels a tunnel may have (100 in the code)

VARIABLES
    text,      \* the lines of the configuration file, [key, value] each: of the
               \* one that --config names, else of ~/.ssh/sshdt_config
    typed,     \* the options on the command line
    dir,       \* the working directory, "here" or "system"
    home,      \* dirs::home_dir() knows a home directory
    tokens,    \* saved options that are not parsed yet
    args,      \* Args: the options of this process
    line,      \* the next line to parse
    disabled,  \* password_disabled and pubkey_disabled
    built,     \* the configuration so far
    stage      \* how far the process has come

configVars == <<text, typed, dir, home, tokens, args, line, disabled, built, stage>>

-----------------------------------------------------------------------------
(* Options                                                                 *)

Switches == {"devtunnel-enable", "devtunnel-disable", "devtunnel-auto-create",
             "no-config", "strict-user", "no-forward"}
ReplacingLists == {"host-key", "devtunnel-label"}
ExtendingLists == {"authorized-keys", "pubkey", "allow-user"}
ListOptions == ReplacingLists \cup ExtendingLists
PathOptions == {"devtunnel-bin", "config", "log-file", "sftp-root", "host-key",
                "authorized-keys"}
ScalarOptions == {"devtunnel-id", "devtunnel-bin", "devtunnel-timeout", "port", "bind",
                  "host-key-passphrase", "password", "shell", "sftp-root",
                  "login-grace", "max-startups"}
Options == ListOptions \cup ScalarOptions \cup {"config", "log-file"}

\* A command line: the options that are given and their values.
IsCommandLine(t) ==
    /\ t = [o \in DOMAIN t |-> t[o]]
    /\ DOMAIN t \subseteq Switches \cup Options
    /\ \A o \in DOMAIN t :
        \/ o \in Switches /\ t[o] = "on"
        \/ o \in ListOptions /\ t[o] \in Seq(STRING) \ {<<>>}
        \/ o \in Options \ ListOptions /\ t[o] \in STRING

ASSUME ConfigAssumption ==
    /\ Texts \subseteq Seq([key : STRING, value : STRING])
    /\ \A t \in CommandLines : IsCommandLine(t)
    /\ MaxSeconds \in Nat
    /\ MaxLabels \in Nat

\* The order in which startup_args writes them (without the logging switches).
OptionOrder ==
    <<"devtunnel-enable", "devtunnel-disable", "devtunnel-id", "devtunnel-label",
      "devtunnel-bin", "devtunnel-auto-create", "devtunnel-timeout", "port", "host-key",
      "config", "no-config", "log-file", "bind", "host-key-passphrase", "password",
      "authorized-keys", "pubkey", "shell", "sftp-root", "strict-user", "allow-user",
      "no-forward", "login-grace", "max-startups">>

Given(f, name) == name \in DOMAIN f
ListOf(f, name) == IF Given(f, name) THEN f[name] ELSE <<>>
With(f, name, value) ==
    [n \in DOMAIN f \cup {name} |-> IF n = name THEN value ELSE f[n]]

\* The file that a path names in working directory d.
Absolute(path, d) == IF path = "rel" THEN d ELSE path

\* `service enable` runs where the options are typed.
push_path_option(name, value) == <<name, Absolute(value, "here")>>

push_option(name, value) ==
    IF name \in PathOptions THEN push_path_option(name, value) ELSE <<name, value>>

push_switch(name) == <<name>>

\* What `service enable` pushes for an option, once for each value.
Pushed(name) ==
    IF ~Given(typed, name) THEN <<>>
    ELSE IF name \in Switches THEN <<push_switch(name)>>
    ELSE IF name \in ListOptions
      THEN [i \in DOMAIN typed[name] |-> push_option(name, typed[name][i])]
      ELSE <<push_option(name, typed[name])>>

\* The sequences in ss, one after the other.
Joined(ss) ==
    LET joined[n \in 0 .. Len(ss)] == IF n = 0 THEN <<>> ELSE joined[n - 1] \o ss[n]
    IN joined[Len(ss)]

\* The options that it saves.
startup_args ==
    Joined(Joined([i \in DOMAIN OptionOrder |-> Pushed(OptionOrder[i])]))

\* The elements of s at the positions in I, in their order.
Picked(s, I) == Joined([n \in DOMAIN s |-> IF n \in I THEN <<s[n]>> ELSE <<>>])

\* try_saved_args drops empty strings.
try_saved_args ==
    LET saved == startup_args
    IN Picked(saved, {i \in DOMAIN saved : saved[i] # ""})

-----------------------------------------------------------------------------
(* Values                                                                  *)

\* The number and the suffix in the durations that occur.
Durations == [t \in {"0", "20", "1m", "1h"} |->
                CASE t = "0" -> [n |-> 0, suffix |-> "none"]
                  [] t = "20" -> [n |-> 20, suffix |-> "none"]
                  [] t = "1m" -> [n |-> 1, suffix |-> "m"]
                  [] t = "1h" -> [n |-> 1, suffix |-> "h"]]

\* parse::<u64>(): its results, at most one.
parse_u64(t) ==
    {n \in {Durations[d].n : d \in {e \in DOMAIN Durations : e = t /\ Durations[e].suffix = "none"}} :
        n <= MaxSeconds}

\* Mutant of Scaled: the product is wrapped to the width of the number.
ScaledWraps(n, suffix) ==
    {(n * (CASE suffix = "m" -> 60 [] suffix = "h" -> 3600 [] OTHER -> 1)) % (MaxSeconds + 1)}

\* checked_mul with what a suffix stands for.
Scaled(n, suffix) ==
    {s \in {n * (CASE suffix = "m" -> 60 [] suffix = "h" -> 3600 [] OTHER -> 1)} :
        s <= MaxSeconds}

\* parse_time: a bare number, or one with a suffix.
parse_time(t) ==
    parse_u64(t) \cup
    UNION {Scaled(Durations[d].n, Durations[d].suffix) :
             d \in {e \in DOMAIN Durations : e = t /\ Durations[e].suffix # "none"}}

\* parse_tunnel_timeout
parse_tunnel_timeout(t) == parse_time(t) \ {0}

\* What parse makes of a value of a scalar field, nothing if it is invalid.  "bad"
\* stands for text that a checked field refuses; the others take anything.
Read(field, value) ==
    CASE field = "login-grace" -> parse_time(value)
      [] field = "devtunnel-timeout" -> parse_tunnel_timeout(value)
      [] field \in {"port", "bind", "max-startups", "devtunnel-id", "devtunnel-bin"} ->
           {value} \ {"bad"}
      [] field \in {"devtunnel", "auto-create"} -> {value} \cap {"yes", "no"}
      [] field = "forwarding" -> {IF value = "no" THEN "no" ELSE "yes"}
      [] OTHER -> {value}

\* What argh makes of the value of an option: Args has numbers and an address, and
\* takes the others as they are.
from_arg_str(o, value) ==
    CASE o = "login-grace" -> parse_u64(value)
      [] o \in {"port", "bind", "max-startups"} -> {value} \ {"bad"}
      [] OTHER -> {value}

\* validate_dev_tunnel (no result of parse_tunnel_timeout is zero).
validate_dev_tunnel(field) ==
    /\ "bad" \notin {field[f] : f \in {"devtunnel-id"} \cap DOMAIN field}
    /\ "bad" \notin Range(ListOf(field, "devtunnel-label"))
    /\ Cardinality(Range(ListOf(field, "devtunnel-label"))) <= MaxLabels

-----------------------------------------------------------------------------
(* The options; the saved ones, if the process was launched by Windows.    *)

Fail == /\ stage' = "failed"
        /\ UNCHANGED <<text, typed, dir, home, tokens, args, line, disabled, built>>

\* Args::from_args (the argh library) takes the next option.
from_args ==
    /\ stage = "args" /\ tokens # <<>>
    /\ LET name == Head(tokens) IN
         \/ /\ name \in Switches
            /\ args' = With(args, name, "on")
            /\ tokens' = Tail(tokens)
         \/ /\ name \in Options /\ Len(tokens) > 1
            /\ args' = With(args, name, IF name \in ListOptions
                                        THEN Append(ListOf(args, name), tokens[2])
                                        ELSE tokens[2])
            /\ tokens' = Tail(Tail(tokens))
    /\ UNCHANGED <<text, typed, dir, home, line, disabled, built, stage>>

\* The values have the types of Args.
WellTyped(options) ==
    \A o \in ScalarOptions \cap DOMAIN options : from_arg_str(o, options[o]) # {}

\* argh, or parse_saved_service_args: the options make no command line.
InvalidArgs ==
    /\ stage = "args"
    /\ \/ /\ tokens # <<>>
          /\ ~(Head(tokens) \in Switches \/ (Head(tokens) \in Options /\ Len(tokens) > 1))
       \/ tokens = <<>> /\ ~WellTyped(args)
    /\ Fail

-----------------------------------------------------------------------------
(* The configuration file.                                                 *)

\* The file to read: the one that was asked for, else the one in the home
\* directory (no such file is as good as an empty one), else none.
select_config_path ==
    IF Given(args, "config") THEN {Absolute(args["config"], dir)}
    ELSE {p \in {"home"} : home /\ ~Given(args, "no-config")}

\* load_file: can the file be read?
load_file(path) == path \in {"here", "home"}

\* build_config up to load_file; some options exclude each other.
SelectConfig ==
    /\ stage = "args" /\ tokens = <<>> /\ WellTyped(args)
    /\ LET conflict == \/ Given(args, "config") /\ Given(args, "no-config")
                       \/ Given(args, "devtunnel-enable") /\ Given(args, "devtunnel-disable")
       IN \/ conflict /\ stage' = "failed"
          \/ ~conflict /\ select_config_path = {} /\ stage' = "flags"
          \/ /\ ~conflict
             /\ \E path \in select_config_path :
                  stage' = IF load_file(path) THEN "parsing" ELSE "failed"
    /\ UNCHANGED <<text, typed, dir, home, tokens, args, line, disabled, built>>

\* The field that a directive sets.  Other directives are ignored.
FieldOf ==
    [k \in {"port", "listenaddress", "hostkey", "authorizedkeysfile", "allowtcpforwarding",
            "logingracetime", "maxstartups", "acceptenv", "devtunnelenable", "devtunnelbin",
            "devtunnelid", "devtunnellabel", "devtunnelautocreate", "devtunneltimeout",
            "shell", "forcecommand", "banner"} |->
       CASE k = "listenaddress" -> "bind"
         [] k = "hostkey" -> "host-key"
         [] k = "authorizedkeysfile" -> "authorized-keys"
         [] k = "allowtcpforwarding" -> "forwarding"
         [] k = "logingracetime" -> "login-grace"
         [] k = "maxstartups" -> "max-startups"
         [] k = "acceptenv" -> "accept-env"
         [] k = "devtunnelenable" -> "devtunnel"
         [] k = "devtunnelbin" -> "devtunnel-bin"
         [] k = "devtunnelid" -> "devtunnel-id"
         [] k = "devtunnellabel" -> "devtunnel-label"
         [] k = "devtunnelautocreate" -> "auto-create"
         [] k = "devtunneltimeout" -> "devtunnel-timeout"
         [] k = "forcecommand" -> "shell"
         [] OTHER -> k]

ListFields == ListOptions \cup {"accept-env"}
AuthDirectives == {"passwordauthentication", "pubkeyauthentication"}

\* A directive that sets a field: lists grow (the first AcceptEnv replaces the
\* default), anything else is overwritten.
SetField(l) ==
    /\ l.key \in DOMAIN FieldOf
    /\ LET field == FieldOf[l.key] IN
         \/ /\ field \in ListFields
            /\ built' = [built EXCEPT !.field =
                           With(@, field, Append(ListOf(@, field), l.value))]
         \/ /\ field \notin ListFields
            /\ \E v \in Read(field, l.value) :
                 built' = [built EXCEPT !.field = With(@, field, v)]
    /\ UNCHANGED disabled

\* Mutant of SetAuth: only "no" closes the server to anonymous clients.
SetAuthByNo(l) ==
    /\ l.key \in AuthDirectives
    /\ built' = [built EXCEPT !.anonymous = @ /\ l.value # "no"]
    /\ disabled' = IF l.value = "no" THEN disabled \cup {l.key} ELSE disabled

\* PasswordAuthentication and PubkeyAuthentication; a value other than yes and
\* no is ignored.
SetAuth(l) ==
    /\ l.key \in AuthDirectives
    /\ built' = [built EXCEPT !.anonymous = @ /\ l.value \notin {"yes", "no"}]
    /\ disabled' = IF l.value = "no" THEN disabled \cup {l.key} ELSE disabled

\* parse takes the next line.
ParseLine ==
    /\ stage = "parsing" /\ line <= Len(text)
    /\ line' = line + 1
    /\ \/ SetField(text[line])
       \/ SetAuth(text[line])
       \/ /\ text[line].key \notin DOMAIN FieldOf \cup AuthDirectives
          /\ UNCHANGED <<built, disabled>>
    /\ UNCHANGED <<text, typed, dir, home, tokens, args, stage>>

\* The value of a directive is invalid.
InvalidLine ==
    /\ stage = "parsing" /\ line <= Len(text)
    /\ text[line].key \in DOMAIN FieldOf
    /\ FieldOf[text[line].key] \notin ListFields
    /\ Read(FieldOf[text[line].key], text[line].value) = {}
    /\ Fail

\* parse clears what was disabled on any line, and parse_for_user takes
\* relative key files from the home directory.
FileFields ==
    LET keys == ListOf(built.field, "authorized-keys") IN
      IF keys = <<>> THEN built.field
      ELSE With(built.field, "authorized-keys",
                IF "pubkeyauthentication" \in disabled THEN <<>>
                ELSE [i \in DOMAIN keys |-> Absolute(keys[i], "home")])

\* Which it cannot without one.
Resolvable ==
    \/ home \/ "pubkeyauthentication" \in disabled
    \/ "rel" \notin Range(ListOf(built.field, "authorized-keys"))

EndOfFile ==
    /\ stage = "parsing" /\ line > Len(text)
    /\ \/ /\ ~(validate_dev_tunnel(FileFields) /\ Resolvable)
          /\ Fail
       \/ /\ validate_dev_tunnel(FileFields) /\ Resolvable
          /\ built' = [built EXCEPT !.field = FileFields]
          /\ line' = 1
          /\ disabled' = {}
          /\ stage' = "flags"
          /\ UNCHANGED <<text, typed, dir, home, tokens, args>>

-----------------------------------------------------------------------------
(* The rest of build_config.                                               *)

\* The fields that switches set.
SwitchSets == [o \in Switches \ {"no-config"} |->
    CASE o = "devtunnel-enable" -> [field |-> "devtunnel", value |-> "yes"]
      [] o = "devtunnel-disable" -> [field |-> "devtunnel", value |-> "no"]
      [] o = "devtunnel-auto-create" -> [field |-> "auto-create", value |-> "yes"]
      [] o = "strict-user" -> [field |-> "strict", value |-> "yes"]
      [] o = "no-forward" -> [field |-> "forwarding", value |-> "no"]]

\* The field that option o sets, and the value it gives it (none if invalid).
FieldSetBy(o) == IF o \in Switches THEN SwitchSets[o].field ELSE o
FlagValue(o) ==
    CASE o \in Switches -> {SwitchSets[o].value}
      [] o \in ReplacingLists -> {args[o]}
      [] o \in ExtendingLists -> {ListOf(built.field, o) \o args[o]}
      [] o = "devtunnel-timeout" -> parse_tunnel_timeout(args[o])
      [] OTHER -> from_arg_str(o, args[o])

\* build_config after load_file: the options that are given win over the file,
\* but key files, keys and users are added to it.
ApplyFlags ==
    /\ stage = "flags"
    /\ LET flags == DOMAIN args \ {"config", "no-config", "log-file"}
           flagged == {FieldSetBy(o) : o \in flags}
           Value(f) == CHOOSE v \in UNION {FlagValue(o) : o \in
                                             {n \in flags : FieldSetBy(n) = f}} : TRUE
           fields == [f \in DOMAIN built.field \cup flagged |->
                        IF f \in flagged THEN Value(f) ELSE built.field[f]]
           valid == /\ \A o \in flags : FlagValue(o) # {}
                    /\ validate_dev_tunnel(fields)
       IN \/ ~valid /\ Fail
          \/ /\ valid
             /\ built' = [built EXCEPT !.field = fields]
             /\ stage' = "configured"
             /\ UNCHANGED <<text, typed, dir, home, tokens, args, line, disabled>>

-----------------------------------------------------------------------------
NoFields == [f \in {} |-> "default"]
Defaults == [field |-> NoFields, anonymous |-> TRUE]

\* run_server in the foreground, and the server that Windows launches; `service
\* enable` has read the options that it saves.
ConfigInit ==
    /\ typed \in CommandLines
    /\ \/ dir = "here" /\ tokens = <<>> /\ args = typed
       \/ /\ dir = "system" /\ tokens = try_saved_args /\ args = NoFields
          /\ WellTyped(typed)
    /\ home \in BOOLEAN
    /\ text \in Texts
    /\ line = 1
    /\ disabled = {}
    /\ built = Defaults
    /\ stage = "args"

ConfigNext ==
    \/ from_args \/ InvalidArgs \/ SelectConfig
    \/ ParseLine \/ InvalidLine \/ EndOfFile \/ ApplyFlags

-----------------------------------------------------------------------------
(* What the file and the options say, without the order of the code.       *)

\* The seconds that a duration stands for.
Seconds == [t \in {"0", "20", "1m", "1h"} |->
              CASE t = "0" -> 0 [] t = "20" -> 20 [] t = "1m" -> 60 [] t = "1h" -> 3600]

\* The values that a line of the file may give to a field: a duration that can be
\* represented, a setup timeout that is positive, yes or no, anything well-formed.
Meant(f, value) ==
    IF f \in {"login-grace", "devtunnel-timeout"}
    THEN {s \in {Seconds[t] : t \in {value} \cap DOMAIN Seconds} :
            s <= MaxSeconds /\ (f = "devtunnel-timeout" => s > 0)}
    ELSE {v \in {IF f = "forwarding" /\ value # "no" THEN "yes" ELSE value} :
            /\ f \in {"devtunnel", "auto-create"} => v \in {"yes", "no"}
            /\ f \in {"port", "bind", "max-startups", "devtunnel-id", "devtunnel-bin"} =>
                 v # "bad"}

\* The same of an option: the grace period is "in seconds", and any path names an
\* executable.
MeantByOption(o, value) ==
    IF o = "devtunnel-bin" THEN {value}
    ELSE {v \in Meant(o, value) : o = "login-grace" => value \notin {"1m", "1h"}}

\* The lines that count.
Said ==
    IF Given(typed, "no-config") \/ (~home /\ ~Given(typed, "config")) THEN <<>> ELSE text

\* Values of the file for field f, in the order of its lines.
SaidOf(f) ==
    Picked([i \in DOMAIN Said |-> Said[i].value],
           {i \in DOMAIN Said : Said[i].key \in DOMAIN FieldOf /\ FieldOf[Said[i].key] = f})

Last(values) == values[Len(values)]

\* Does the file disable or enable a method?  Does it disable keys?
SaysAuth == \E l \in Range(Said) : l.key \in AuthDirectives /\ l.value \in {"yes", "no"}
DisablesKeys == \E l \in Range(Said) : l.key = "pubkeyauthentication" /\ l.value = "no"

ScalarFields ==
    ScalarOptions \cup {"forwarding", "devtunnel", "auto-create", "banner", "strict"}

\* No command line and no line of the file is at fault.
Flawless ==
    /\ Given(typed, "config") => /\ load_file(Absolute(typed["config"], "here"))
                                 /\ ~Given(typed, "no-config")
    /\ ~(Given(typed, "devtunnel-enable") /\ Given(typed, "devtunnel-disable"))
    /\ \A f \in ScalarFields : \A v \in Range(SaidOf(f)) : Meant(f, v) # {}
    /\ \A o \in ScalarOptions \cap DOMAIN typed : MeantByOption(o, typed[o]) # {}
    /\ \A labels \in {Range(SaidOf("devtunnel-label")), Range(ListOf(typed, "devtunnel-label"))} :
         "bad" \notin labels /\ Cardinality(labels) <= MaxLabels
    /\ DisablesKeys \/ home \/ "rel" \notin Range(SaidOf("authorized-keys"))

Located(f, values, d) ==
    IF f \in PathOptions THEN [i \in DOMAIN values |-> Absolute(values[i], d)] ELSE values

\* What a list is to hold: paths typed are in the directory of the user.
WantedList(f) ==
    LET file == IF f # "authorized-keys" THEN Located(f, SaidOf(f), dir)
                ELSE IF DisablesKeys THEN <<>> ELSE Located(f, SaidOf(f), "home")
        flags == Located(f, ListOf(typed, f), "here")
    IN CASE f \in ReplacingLists -> IF flags # <<>> THEN flags ELSE file
         [] OTHER -> file \o flags

\* The same of a field with one value.
LocatedValue(f, value, d) == IF f \in PathOptions THEN Absolute(value, d) ELSE value

\* What another field is to be: the option, else the last line of the file,
\* else its default (no value).
WantedScalar(f) ==
    LET switches == {o \in Switches \cap DOMAIN typed :
                        o # "no-config" /\ SwitchSets[o].field = f} IN
      IF switches # {} THEN {SwitchSets[o].value : o \in switches}
      ELSE IF Given(typed, f)
        THEN {LocatedValue(f, v, "here") : v \in MeantByOption(f, typed[f])}
      ELSE IF SaidOf(f) # <<>>
        THEN {LocatedValue(f, v, dir) : v \in Meant(f, Last(SaidOf(f)))}
      ELSE {}

\* What the process makes of its configuration.
InUse(f) == {LocatedValue(f, built.field[g], dir) : g \in {f} \cap DOMAIN built.field}

\* try_saved_args would drop an empty value, and from_args take the next option for
\* it.
NoEmptyValue ==
    \A o \in Options \cap DOMAIN typed :
        IF o \in ListOptions THEN "" \notin Range(typed[o]) ELSE typed[o] # ""

\* The configuration in effect is the one that the file and the options
\* describe: "defaults < config file < flags", the last line counts, disabled
\* keys of the file stay out wherever the line stands, a duration is the seconds it
\* stands for; a flaw in either is an error, also one that the options would hide.
\* Key files, keys and users that are typed do not override those of the file but
\* are "additive on top of any from a file" (main.rs:541; README.md:347 says of all
\* flags that they override).  A server launched at login gets the same from the
\* saved options, in whatever directory it runs, if no option has an empty value.
ConfigAsDescribed ==
    (dir = "here" \/ NoEmptyValue) =>
      /\ stage = "failed" => ~Flawless
      /\ stage = "configured" =>
           /\ Flawless
           /\ \A f \in ListFields :
                Located(f, ListOf(built.field, f), dir) = WantedList(f)
           /\ \A f \in ScalarFields : InUse(f) = WantedScalar(f)
=============================================================================
