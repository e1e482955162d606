------------------------- MODULE ClusterConfig_proofs -------------------------
(* The configuration that create_cluster leaves with the driver, for any          *)
(* arguments, and the objects of the driver it made on the way.                    *)
EXTENDS ClusterConfig, TLAPS

TypeOK ==
  /\ \A o \in Options : args[o] \in ValuesOf(o)
  /\ status \in {"new", "init", "ready", "raised", "freed"}
  /\ step \in 0..Len(InitOrder)
  /\ status = "new" => step = 0
  /\ status = "init" => step < Len(InitOrder)
  /\ status = "ready" => step = Len(InitOrder)
  /\ DOMAIN conf = Settings
  /\ refs \in [Kinds -> Nat]
  /\ calls \in Nat

(* The setters __init__ has called, by their places in InitOrder.                  *)
Done(o) == \E i \in 1..step : InitOrder[i] = o
SslNow   == step >= 16 /\ args["ssl"] # "disabled"
ProxyNow == step >= 58 /\ args["dse_gssapi_proxy"] # None
GssapiNow == step >= 57 /\ args["dse_gssapi"] # None

(* The settings so far.                                                            *)
PlainSoFar == \A o \in Plain \ {"hostname_resolution"} :
                conf[o] = IF Done(o) /\ args[o] # None THEN Normal(o) ELSE Unset
ReconnectSoFar ==
  conf["reconnect"] = IF step >= 21 /\ args["exponential_reconnect"] # None THEN "exponential_reconnect"
                      ELSE IF step >= 20 /\ args["constant_reconnect"] # None THEN "constant_reconnect"
                      ELSE Unset
BalanceSoFar ==
  conf["load_balance"] = IF step >= 30 /\ args["rack_aware"] # None THEN "rack_aware"
                         ELSE IF step >= 29 /\ args["dc_aware"] # None THEN "dc_aware"
                         ELSE IF step >= 28 /\ args["round_robin"] # "True" THEN "round_robin"
                         ELSE Unset
SslSoFar == conf["ssl"] = IF SslNow THEN args["ssl"] ELSE Unset
AuthSoFar ==
  conf["auth"] = IF ProxyNow THEN "dse_gssapi_proxy" ELSE IF GssapiNow THEN "dse_gssapi"
                 ELSE IF step >= 12 /\ args["credentials"] = "both" THEN "credentials" ELSE Unset
NamesSoFar ==
  conf["hostname_resolution"] =
    IF (SslNow /\ args["ssl"] = "PEER_IDENTITY_DNS") \/ GssapiNow \/ ProxyNow THEN "True"
    ELSE IF step >= 15 /\ args["hostname_resolution"] # None THEN args["hostname_resolution"] ELSE Unset

SettingsSoFar ==
  status \in {"new", "init"} \/ (status = "ready" /\ calls = 0) =>
    PlainSoFar /\ ReconnectSoFar /\ BalanceSoFar /\ SslSoFar /\ AuthSoFar /\ NamesSoFar

(* The objects so far.                                                             *)
Generators == calls + (IF args["timestamp_gen"] = "monotonic" THEN 1 ELSE 0)
ObjectsSoFar ==
  /\ status = "new" => /\ \A k \in Kinds : refs[k] = 0
                       /\ calls = 0
  /\ status = "init" => /\ refs["cluster"] = 1 /\ refs["profile"] = 0 /\ refs["retry_policy"] = 0 /\ calls = 0
                        /\ refs["ssl"] <= (IF step >= 16 THEN 1 ELSE 0)
                        /\ refs["timestamp_gen"] <= (IF step >= 43 THEN Generators ELSE 0)
  /\ status = "ready" => /\ refs["cluster"] = 1
                         /\ refs["ssl"] + refs["profile"] <= calls + 1 /\ refs["profile"] <= calls
                         /\ refs["retry_policy"] > 0 => refs["profile"] > 0
                         /\ refs["timestamp_gen"] <= Generators

IInv == TypeOK /\ SettingsSoFar /\ ObjectsSoFar /\ ObjectsGivenBack

--------------------------------------------------------------------------------
(* The order of the setters.                                                       *)

LEMMA OrderLength == Len(InitOrder) = 60
BY DEF InitOrder

LEMMA Special ==
  ASSUME NEW i \in 1..60
  PROVE  /\ InitOrder[i] = "credentials" <=> i = 12
         /\ InitOrder[i] = "hostname_resolution" <=> i = 15
         /\ InitOrder[i] = "ssl" <=> i = 16
         /\ InitOrder[i] = "constant_reconnect" <=> i = 20
         /\ InitOrder[i] = "exponential_reconnect" <=> i = 21
         /\ InitOrder[i] = "round_robin" <=> i = 28
         /\ InitOrder[i] = "dc_aware" <=> i = 29
         /\ InitOrder[i] = "rack_aware" <=> i = 30
         /\ InitOrder[i] = "timestamp_gen" <=> i = 43
         /\ InitOrder[i] = "dse_gssapi" <=> i = 57
         /\ InitOrder[i] = "dse_gssapi_proxy" <=> i = 58
BY DEF InitOrder

LEMMA EachIsAnOption == \A i \in 1..60 : InitOrder[i] \in Options
BY DEF InitOrder, Options, Plain, Checked, EndpointOptions, ProtocolOptions, IoOptions, PacingOptions, WriteOptions,
       NameOptions, SchemaOptions, TimeoutOptions, WaitOptions, RoutingOptions, FilterOptions, TcpOptions, HeartOptions,
       LabelOptions, GssapiOptions, PlaintextOptions, ReconnectOptions, BalanceOptions

LEMMA EachIsSet == \A o \in Plain : \E i \in 1..60 : InitOrder[i] = o
BY DEF InitOrder, Options, Plain, Checked, EndpointOptions, ProtocolOptions, IoOptions, PacingOptions, WriteOptions,
       NameOptions, SchemaOptions, TimeoutOptions, WaitOptions, RoutingOptions, FilterOptions, TcpOptions, HeartOptions,
       LabelOptions

--------------------------------------------------------------------------------
(* Options and settings.                                                           *)

LEMMA Apart ==
  /\ Plain \cap ({"reconnect", "load_balance", "ssl", "auth", "local_port_range", "log_level", "timestamp_gen",
                  "retry_policy", "host_listener", "credentials", "logging_callback", "listener_callback"}
                   \cup GssapiOptions \cup PlaintextOptions \cup ReconnectOptions \cup BalanceOptions) = {}
  /\ "hostname_resolution" \in Plain /\ TimeoutOptions \subseteq Plain \ {"hostname_resolution"}
BY DEF Plain, Checked, EndpointOptions, ProtocolOptions, IoOptions, PacingOptions, WriteOptions, NameOptions,
       SchemaOptions, TimeoutOptions, WaitOptions, RoutingOptions, FilterOptions, TcpOptions, HeartOptions,
       LabelOptions, GssapiOptions, PlaintextOptions, ReconnectOptions, BalanceOptions

LEMMA SettingsAre ==
  /\ Plain \subseteq Settings
  /\ {"auth", "reconnect", "load_balance", "local_port_range", "log_level", "ssl", "timestamp_gen", "retry_policy",
      "host_listener", "logging_callback", "listener_callback"} \subseteq Settings
BY DEF Settings, Callbacks

(* What each option is set with.                                                   *)
LEMMA SetterIs ==
  ASSUME NEW o \in Options, NEW v
  PROVE  \/ o \in Plain /\ Setter(o, v) = SetPlain(o, v)
         \/ o = "local_port_range" /\ Setter(o, v) = SetLocalPortRange(v)
         \/ o = "credentials" /\ Setter(o, v) = SetCredentials(v)
         \/ o \in {"log_level", "logging_callback"} /\ Setter(o, v) = SetLogging(o, v)
         \/ o = "ssl" /\ Setter(o, v) = SetSsl(v)
         \/ o \in ReconnectOptions /\ Setter(o, v) = SetReconnect(o, v)
         \/ o \in BalanceOptions /\ Setter(o, v) = SetBalance(o, v)
         \/ o = "timestamp_gen" /\ Setter(o, v) = SetTimestampGen(v)
         \/ o = "retry_policy" /\ Setter(o, v) = SetRetryPolicy(v)
         \/ o = "host_listener" /\ Setter(o, v) = SetHostListener(v)
         \/ o \in GssapiOptions /\ Setter(o, v) = SetGssapi(o, v)
         \/ o \in PlaintextOptions /\ Setter(o, v) = SetPlaintext(o, v)
<1> USE DEF GssapiOptions, PlaintextOptions, ReconnectOptions, BalanceOptions
<1>1. CASE o \in Plain
  BY <1>1 DEF Setter
<1>2. CASE o \notin Plain
  BY <1>2 DEF Setter, Options
<1> QED
  BY <1>1, <1>2

(* The values of the options whose setters know all of them.                       *)
LEMMA ValueFacts ==
  /\ ValuesOf("credentials") = {None, "both", "one"}
  /\ ValuesOf("timestamp_gen") = {None, "server_side", "monotonic", "wrong"}
  /\ \A o \in TimeoutOptions : \A v \in ValuesOf(o) : v = None \/ v \in Nat
<1>1. /\ \A o \in TimeoutOptions : o \notin NoneByDefault /\ o # "ssl"
      /\ {"credentials", "timestamp_gen"} \cap TimeoutOptions = {}
      /\ {"credentials", "timestamp_gen"} \subseteq NoneByDefault
  BY DEF NoneByDefault, TimeoutOptions, EndpointOptions, FilterOptions, GssapiOptions, PlaintextOptions
<1>2. DefaultArg("credentials") = None /\ DefaultArg("timestamp_gen") = None
  BY <1>1 DEF DefaultArg
<1>3. ValuesOf("credentials") = {None, "both", "one"}
  BY <1>1, <1>2 DEF ValuesOf, ProtocolOptions
<1>4. ValuesOf("timestamp_gen") = {None, "server_side", "monotonic", "wrong"}
  BY <1>1, <1>2 DEF ValuesOf, ProtocolOptions
<1>5. ASSUME NEW o \in TimeoutOptions, NEW v \in ValuesOf(o) PROVE v = None \/ v \in Nat
  <2>1. DefaultArg(o) \in Nat
    BY <1>1, SMT DEF DefaultArg, TimeoutOptions
  <2>2. o = "connect_timeout" => ValuesOf(o) = {DefaultArg(o), None, 1999}
    BY SMT DEF ValuesOf, TimeoutOptions, ProtocolOptions
  <2>3. o = "request_timeout" => ValuesOf(o) = {DefaultArg(o), None, 1999}
    BY SMT DEF ValuesOf, TimeoutOptions, ProtocolOptions
  <2>4. o = "resolve_timeout" => ValuesOf(o) = {DefaultArg(o), None, 1999}
    BY SMT DEF ValuesOf, TimeoutOptions, ProtocolOptions
  <2> QED
    BY <1>5, <2>1, <2>2, <2>3, <2>4 DEF TimeoutOptions
<1> QED
  BY <1>3, <1>4, <1>5

--------------------------------------------------------------------------------
(* What a setter leaves.                                                           *)

(* The settings, when it returns.                                                  *)
Leaves(o, v, out) ==
  /\ DOMAIN out.conf = Settings
  /\ \A s \in Plain \ {"hostname_resolution"} : out.conf[s] = IF s = o /\ v # None THEN v ELSE conf[s]
  /\ out.conf["reconnect"] = IF o \in ReconnectOptions /\ v # None THEN o ELSE conf["reconnect"]
  /\ out.conf["load_balance"] = IF \/ o = "round_robin" /\ v # "True"
                                   \/ o \in {"dc_aware", "rack_aware"} /\ v # None
                                THEN o ELSE conf["load_balance"]
  /\ out.conf["ssl"] = IF o = "ssl" /\ v # "disabled" THEN v ELSE conf["ssl"]
  /\ out.conf["auth"] = IF o = "credentials" /\ v = "both" THEN "credentials"
                        ELSE IF o \in GssapiOptions \cup PlaintextOptions /\ v # None THEN o ELSE conf["auth"]
  /\ out.conf["hostname_resolution"] = IF o = "hostname_resolution" /\ v # None THEN v
                                       ELSE IF \/ o = "ssl" /\ v = "PEER_IDENTITY_DNS"
                                               \/ o \in GssapiOptions /\ v # None
                                       THEN "True" ELSE conf["hostname_resolution"]

(* The settings, when it raises.                                                   *)
Restores(out) ==
  /\ DOMAIN out.conf = Settings
  /\ \A s \in Settings \ Callbacks :
       out.conf[s] = conf[s] \/ (s = "hostname_resolution" /\ out.conf[s] = "True")

Keeps(out) == out.refs = refs

LEMMA Ends ==
  \A c, r : /\ Returns(c, r).ok /\ Returns(c, r).conf = c /\ Returns(c, r).refs = r
            /\ ~Raises(c, r).ok /\ Raises(c, r).conf = c /\ Raises(c, r).refs = r
BY DEF Returns, Raises

LEMMA WithFacts ==
  ASSUME DOMAIN conf = Settings, NEW s \in Settings, NEW v
  PROVE  /\ DOMAIN With(s, v) = Settings /\ With(s, v)[s] = v
         /\ \A t \in Settings : t # s => With(s, v)[t] = conf[t]
BY DEF With

LEMMA PlainLeaves ==
  ASSUME DOMAIN conf = Settings, NEW o \in Plain, NEW v, NEW out \in SetPlain(o, v)
  PROVE  (IF out.ok THEN Leaves(o, v, out) ELSE Restores(out)) /\ Keeps(out)
<1>1. \/ v = None /\ out = Returns(conf, refs)
      \/ v # None /\ out = Returns(With(o, v), refs)
      \/ out = Raises(conf, refs)
  BY DEF SetPlain, Nothing, Refused
<1>2. /\ o \notin {"reconnect", "load_balance", "ssl", "auth", "credentials"}
      /\ o \notin GssapiOptions /\ o \notin PlaintextOptions /\ o \notin ReconnectOptions
      /\ o \notin {"round_robin", "dc_aware", "rack_aware"}
  BY Apart DEF BalanceOptions
<1>3. /\ Plain \subseteq Settings /\ o \in Settings
      /\ {"reconnect", "load_balance", "ssl", "auth", "hostname_resolution"} \subseteq Settings
  BY Apart, SettingsAre
<1>4. CASE v = None /\ out = Returns(conf, refs)
  BY <1>2, <1>3, <1>4, Ends DEF Leaves, Keeps
<1>5. CASE v # None /\ out = Returns(With(o, v), refs)
  BY <1>2, <1>3, <1>5, Ends, WithFacts DEF Leaves, Keeps
<1>6. CASE out = Raises(conf, refs)
  BY <1>6, Ends DEF Restores, Keeps
<1> QED
  BY <1>1, <1>4, <1>5, <1>6

(* What the others set is none of the plain settings.                              *)
LEMMA Elsewhere ==
  /\ \A s \in Plain : /\ s \in Settings
                      /\ s \notin {"reconnect", "load_balance", "ssl", "auth", "local_port_range", "log_level",
                                   "timestamp_gen", "retry_policy", "host_listener", "credentials",
                                   "logging_callback", "listener_callback", "constant_reconnect",
                                   "exponential_reconnect", "round_robin", "dc_aware", "rack_aware", "dse_gssapi",
                                   "dse_gssapi_proxy", "dse_plaintext", "dse_plaintext_proxy"}
  /\ {"auth", "reconnect", "load_balance", "local_port_range", "log_level", "ssl", "timestamp_gen", "retry_policy",
      "host_listener", "logging_callback", "listener_callback", "hostname_resolution"} \subseteq Settings
BY Apart, SettingsAre DEF GssapiOptions, PlaintextOptions, ReconnectOptions, BalanceOptions

LEMMA PortRangeLeaves ==
  ASSUME DOMAIN conf = Settings, NEW v, NEW out \in SetLocalPortRange(v)
  PROVE  (IF out.ok THEN Leaves("local_port_range", v, out) ELSE Restores(out)) /\ Keeps(out)
<1>1. \/ out = Returns(conf, refs)
      \/ \E w : out = Returns(With("local_port_range", w), refs)
      \/ out = Raises(conf, refs)
  BY DEF SetLocalPortRange, Nothing, Refused
<1> USE DEF GssapiOptions, PlaintextOptions, ReconnectOptions
<1>2. CASE out = Returns(conf, refs)
  BY <1>2, Ends, Elsewhere DEF Leaves, Keeps
<1>3. CASE \E w : out = Returns(With("local_port_range", w), refs)
  BY <1>3, Ends, Elsewhere, WithFacts DEF Leaves, Keeps
<1>4. CASE out = Raises(conf, refs)
  BY <1>4, Ends DEF Restores, Keeps
<1> QED
  BY <1>1, <1>2, <1>3, <1>4

LEMMA CredentialsLeave ==
  ASSUME DOMAIN conf = Settings, NEW v \in ValuesOf("credentials"), NEW out \in SetCredentials(v)
  PROVE  (IF out.ok THEN Leaves("credentials", v, out) ELSE Restores(out)) /\ Keeps(out)
<1>0. v \in {None, "both", "one"} /\ None # "both" /\ None # "one"
  BY ValueFacts, NoneIsNoValue DEF NoneIsNoValue
<1>1. \/ v = None /\ out = Returns(conf, refs)
      \/ v = "both" /\ out = Returns(With("auth", "credentials"), refs)
      \/ out = Raises(conf, refs)
  BY <1>0 DEF SetCredentials, Nothing, Refused
<1> USE DEF GssapiOptions, PlaintextOptions, ReconnectOptions
<1>2. CASE v = None /\ out = Returns(conf, refs)
  BY <1>0, <1>2, Ends, Elsewhere DEF Leaves, Keeps
<1>3. CASE v = "both" /\ out = Returns(With("auth", "credentials"), refs)
  BY <1>3, Ends, Elsewhere, WithFacts DEF Leaves, Keeps
<1>4. CASE out = Raises(conf, refs)
  BY <1>4, Ends DEF Restores, Keeps
<1> QED
  BY <1>1, <1>2, <1>3, <1>4

LEMMA LoggingLeaves ==
  ASSUME DOMAIN conf = Settings, NEW o \in {"log_level", "logging_callback"}, NEW v, NEW out \in SetLogging(o, v)
  PROVE  (IF out.ok THEN Leaves(o, v, out) ELSE Restores(out)) /\ Keeps(out)
<1>1. \/ out = Returns(conf, refs)
      \/ out = Returns(With(o, v), refs)
      \/ out = Raises(conf, refs)
  BY DEF SetLogging, Nothing, Refused
<1> USE DEF GssapiOptions, PlaintextOptions, ReconnectOptions
<1>2. CASE out = Returns(conf, refs)
  BY <1>2, Ends, Elsewhere DEF Leaves, Keeps
<1>3. CASE out = Returns(With(o, v), refs)
  BY <1>3, Ends, Elsewhere, WithFacts DEF Leaves, Keeps
<1>4. CASE out = Raises(conf, refs)
  BY <1>4, Ends DEF Restores, Keeps
<1> QED
  BY <1>1, <1>2, <1>3, <1>4

LEMMA SslLeaves ==
  ASSUME DOMAIN conf = Settings, NEW v, NEW out \in SetSsl(v)
  PROVE  /\ IF out.ok THEN Leaves("ssl", v, out) ELSE Restores(out)
         /\ out.refs = refs \/ out.refs = Made("ssl", 1)
<1> DEFINE named == IF v = "PEER_IDENTITY_DNS" THEN With("hostname_resolution", "True") ELSE conf
           set == [named EXCEPT !["ssl"] = v]
           made == Made("ssl", 1)
<1>1. \/ v = "disabled" /\ out = Returns(conf, refs)
      \/ v # "disabled" /\ out = Returns(set, made)
      \/ out = Raises(conf, made)
  BY DEF SetSsl, Nothing
<1>2. /\ DOMAIN named = Settings
      /\ \A s \in Settings \ {"hostname_resolution"} : named[s] = conf[s]
      /\ named["hostname_resolution"] = IF v = "PEER_IDENTITY_DNS" THEN "True" ELSE conf["hostname_resolution"]
  BY Elsewhere, WithFacts
<1> HIDE DEF named, made
<1>3. /\ DOMAIN set = Settings /\ set["ssl"] = v
      /\ \A s \in Settings \ {"ssl"} : set[s] = named[s]
  BY <1>2, Elsewhere
<1> HIDE DEF set
<1> USE DEF GssapiOptions, PlaintextOptions, ReconnectOptions
<1>4. CASE v = "disabled" /\ out = Returns(conf, refs)
  BY <1>4, Ends, Elsewhere DEF Leaves
<1>5. CASE v # "disabled" /\ out = Returns(set, made)
  BY <1>2, <1>3, <1>5, Ends, Elsewhere DEF Leaves, made
<1>6. CASE out = Raises(conf, made)
  BY <1>6, Ends DEF Restores, made
<1> QED
  BY <1>1, <1>4, <1>5, <1>6

LEMMA ReconnectLeaves ==
  ASSUME DOMAIN conf = Settings, NEW o \in ReconnectOptions, NEW v, NEW out \in SetReconnect(o, v)
  PROVE  (IF out.ok THEN Leaves(o, v, out) ELSE Restores(out)) /\ Keeps(out)
<1>1. \/ v = None /\ out = Returns(conf, refs)
      \/ v # None /\ out = Returns(With("reconnect", o), refs)
      \/ out = Raises(conf, refs)
  BY DEF SetReconnect, Nothing, Refused
<1> USE DEF GssapiOptions, PlaintextOptions, ReconnectOptions
<1>2. CASE v = None /\ out = Returns(conf, refs)
  BY <1>2, Ends, Elsewhere DEF Leaves, Keeps
<1>3. CASE v # None /\ out = Returns(With("reconnect", o), refs)
  BY <1>3, Ends, Elsewhere, WithFacts DEF Leaves, Keeps
<1>4. CASE out = Raises(conf, refs)
  BY <1>4, Ends DEF Restores, Keeps
<1> QED
  BY <1>1, <1>2, <1>3, <1>4

LEMMA BalanceLeaves ==
  ASSUME DOMAIN conf = Settings, NEW o \in BalanceOptions, NEW v, NEW out \in SetBalance(o, v)
  PROVE  (IF out.ok THEN Leaves(o, v, out) ELSE Restores(out)) /\ Keeps(out)
<1> DEFINE given == (o = "round_robin" /\ v # "True") \/ (o # "round_robin" /\ v # None)
<1>1. \/ ~given /\ out = Returns(conf, refs)
      \/ given /\ out = Returns(With("load_balance", o), refs)
      \/ out = Raises(conf, refs)
  BY DEF SetBalance, Nothing, Refused
<1> USE DEF GssapiOptions, PlaintextOptions, ReconnectOptions, BalanceOptions
<1>2. CASE ~given /\ out = Returns(conf, refs)
  BY <1>2, Ends, Elsewhere DEF Leaves, Keeps
<1>3. CASE given /\ out = Returns(With("load_balance", o), refs)
  BY <1>3, Ends, Elsewhere, WithFacts DEF Leaves, Keeps
<1>4. CASE out = Raises(conf, refs)
  BY <1>4, Ends DEF Restores, Keeps
<1> QED
  BY <1>1, <1>2, <1>3, <1>4

LEMMA TimestampGenLeaves ==
  ASSUME DOMAIN conf = Settings, NEW v \in ValuesOf("timestamp_gen"), NEW out \in SetTimestampGen(v)
  PROVE  /\ IF out.ok THEN Leaves("timestamp_gen", v, out) ELSE Restores(out)
         /\ \/ Keeps(out)
            \/ out.refs = Made("timestamp_gen", 1) /\ (out.ok => v = "monotonic")
<1> DEFINE made == Made("timestamp_gen", 1)
<1>0. /\ v \in {None, "server_side", "monotonic", "wrong"}
      /\ None \notin {"server_side", "monotonic", "wrong"}
  BY ValueFacts, NoneIsNoValue DEF NoneIsNoValue
<1>1. \/ out = Returns(conf, refs)
      \/ v = "monotonic" /\ out = Returns(With("timestamp_gen", v), made)
      \/ out = Raises(conf, made) \/ out = Raises(conf, refs)
  BY <1>0 DEF SetTimestampGen, Nothing, Refused
<1> HIDE DEF made
<1> USE DEF GssapiOptions, PlaintextOptions, ReconnectOptions
<1>2. CASE out = Returns(conf, refs)
  BY <1>2, Ends, Elsewhere DEF Leaves, Keeps
<1>3. CASE v = "monotonic" /\ out = Returns(With("timestamp_gen", v), made)
  BY <1>3, Ends, Elsewhere, WithFacts DEF Leaves, made
<1>4. CASE out = Raises(conf, made) \/ out = Raises(conf, refs)
  BY <1>4, Ends DEF Restores, Keeps, made
<1> QED
  BY <1>1, <1>2, <1>3, <1>4

LEMMA RetryPolicyLeaves ==
  ASSUME DOMAIN conf = Settings, refs \in [Kinds -> Nat], NEW v, NEW out \in SetRetryPolicy(v)
  PROVE  (IF out.ok THEN Leaves("retry_policy", v, out) ELSE Restores(out)) /\ Keeps(out)
<1>0. Made("retry_policy", 1 - 1) = refs /\ Made("retry_policy", 2 - (1 + 1)) = refs
  BY DEF Made, Kinds
<1>1. \/ out = Returns(conf, refs)
      \/ out = Returns(With("retry_policy", v), refs)
      \/ out = Raises(conf, refs)
  BY <1>0 DEF SetRetryPolicy, Nothing, Refused
<1> USE DEF GssapiOptions, PlaintextOptions, ReconnectOptions
<1>2. CASE out = Returns(conf, refs)
  BY <1>2, Ends, Elsewhere DEF Leaves, Keeps
<1>3. CASE out = Returns(With("retry_policy", v), refs)
  BY <1>3, Ends, Elsewhere, WithFacts DEF Leaves, Keeps
<1>4. CASE out = Raises(conf, refs)
  BY <1>4, Ends DEF Restores, Keeps
<1> QED
  BY <1>1, <1>2, <1>3, <1>4

LEMMA HostListenerLeaves ==
  ASSUME DOMAIN conf = Settings, NEW v, NEW out \in SetHostListener(v)
  PROVE  (IF out.ok THEN Leaves("host_listener", v, out) ELSE Restores(out)) /\ Keeps(out)
<1> DEFINE called == With("listener_callback", v)
           set == [called EXCEPT !["host_listener"] = "registered"]
<1>1. \/ out = Returns(conf, refs) \/ out = Returns(called, refs) \/ out = Returns(set, refs)
      \/ out = Raises(called, refs)
  BY DEF SetHostListener, Nothing
<1>2. /\ DOMAIN called = Settings /\ \A s \in Settings \ {"listener_callback"} : called[s] = conf[s]
  BY Elsewhere, WithFacts
<1> HIDE DEF called
<1>3. /\ DOMAIN set = Settings /\ \A s \in Settings \ {"host_listener"} : set[s] = called[s]
  BY <1>2, Elsewhere
<1> HIDE DEF set
<1> USE DEF GssapiOptions, PlaintextOptions, ReconnectOptions
<1>4. CASE out = Returns(conf, refs)
  BY <1>4, Ends, Elsewhere DEF Leaves, Keeps
<1>5. CASE out = Returns(called, refs)
  BY <1>2, <1>5, Ends, Elsewhere DEF Leaves, Keeps
<1>6. CASE out = Returns(set, refs)
  BY <1>2, <1>3, <1>6, Ends, Elsewhere DEF Leaves, Keeps
<1>7. CASE out = Raises(called, refs)
  BY <1>2, <1>7, Ends DEF Restores, Keeps, Callbacks
<1> QED
  BY <1>1, <1>4, <1>5, <1>6, <1>7

LEMMA GssapiLeaves ==
  ASSUME DOMAIN conf = Settings, NEW o \in GssapiOptions, NEW v, NEW out \in SetGssapi(o, v)
  PROVE  (IF out.ok THEN Leaves(o, v, out) ELSE Restores(out)) /\ Keeps(out)
<1> DEFINE named == With("hostname_resolution", "True")
           set == [named EXCEPT !["auth"] = o]
<1>1. \/ v = None /\ out = Returns(conf, refs)
      \/ v # None /\ out = Returns(set, refs)
      \/ out = Raises(named, refs) \/ out = Raises(conf, refs)
  BY DEF SetGssapi, Nothing, Refused
<1>2. /\ DOMAIN named = Settings /\ named["hostname_resolution"] = "True"
      /\ \A s \in Settings \ {"hostname_resolution"} : named[s] = conf[s]
  BY Elsewhere, WithFacts
<1> HIDE DEF named
<1>3. /\ DOMAIN set = Settings /\ set["auth"] = o
      /\ \A s \in Settings \ {"auth"} : set[s] = named[s]
  BY <1>2, Elsewhere
<1> HIDE DEF set
<1> USE DEF GssapiOptions, PlaintextOptions, ReconnectOptions
<1>4. CASE v = None /\ out = Returns(conf, refs)
  BY <1>4, Ends, Elsewhere DEF Leaves, Keeps
<1>5. CASE v # None /\ out = Returns(set, refs)
  BY <1>2, <1>3, <1>5, Ends, Elsewhere DEF Leaves, Keeps
<1>6. CASE out = Raises(named, refs)
  BY <1>2, <1>6, Ends DEF Restores, Keeps
<1>7. CASE out = Raises(conf, refs)
  BY <1>7, Ends DEF Restores, Keeps
<1> QED
  BY <1>1, <1>4, <1>5, <1>6, <1>7

LEMMA PlaintextLeaves ==
  ASSUME DOMAIN conf = Settings, NEW o \in PlaintextOptions, NEW v, NEW out \in SetPlaintext(o, v)
  PROVE  (IF out.ok THEN Leaves(o, v, out) ELSE Restores(out)) /\ Keeps(out)
<1>1. \/ v = None /\ out = Returns(conf, refs)
      \/ v # None /\ out = Returns(With("auth", o), refs)
      \/ out = Raises(conf, refs)
  BY DEF SetPlaintext, Nothing, Refused
<1> USE DEF GssapiOptions, PlaintextOptions, ReconnectOptions
<1>2. CASE v = None /\ out = Returns(conf, refs)
  BY <1>2, Ends, Elsewhere DEF Leaves, Keeps
<1>3. CASE v # None /\ out = Returns(With("auth", o), refs)
  BY <1>3, Ends, Elsewhere, WithFacts DEF Leaves, Keeps
<1>4. CASE out = Raises(conf, refs)
  BY <1>4, Ends DEF Restores, Keeps
<1> QED
  BY <1>1, <1>2, <1>3, <1>4

(* The objects a setter has made: an SSL context or a timestamp generator.         *)
Makes(o, v, out) ==
  \/ Keeps(out)
  \/ o = "ssl" /\ out.refs = Made("ssl", 1)
  \/ o = "timestamp_gen" /\ out.refs = Made("timestamp_gen", 1) /\ (out.ok => v = "monotonic")

(* Any setter, with a value the program can give it.                               *)
LEMMA SetterLeaves ==
  ASSUME DOMAIN conf = Settings, refs \in [Kinds -> Nat], NEW o \in Options, NEW v,
         o \in {"credentials", "timestamp_gen"} => v \in ValuesOf(o), NEW out \in Setter(o, v)
  PROVE  (IF out.ok THEN Leaves(o, v, out) ELSE Restores(out)) /\ Makes(o, v, out)
<1>1. CASE o \in Plain /\ Setter(o, v) = SetPlain(o, v)
  BY <1>1, PlainLeaves DEF Makes
<1>2. CASE o = "local_port_range" /\ Setter(o, v) = SetLocalPortRange(v)
  BY <1>2, PortRangeLeaves DEF Makes
<1>3. CASE o = "credentials" /\ Setter(o, v) = SetCredentials(v)
  BY <1>3, CredentialsLeave DEF Makes
<1>4. CASE o \in {"log_level", "logging_callback"} /\ Setter(o, v) = SetLogging(o, v)
  BY <1>4, LoggingLeaves DEF Makes
<1>5. CASE o = "ssl" /\ Setter(o, v) = SetSsl(v)
  BY <1>5, SslLeaves DEF Makes, Keeps
<1>6. CASE o \in ReconnectOptions /\ Setter(o, v) = SetReconnect(o, v)
  BY <1>6, ReconnectLeaves DEF Makes
<1>7. CASE o \in BalanceOptions /\ Setter(o, v) = SetBalance(o, v)
  BY <1>7, BalanceLeaves DEF Makes
<1>8. CASE o = "timestamp_gen" /\ Setter(o, v) = SetTimestampGen(v)
  BY <1>8, TimestampGenLeaves DEF Makes
<1>9. CASE o = "retry_policy" /\ Setter(o, v) = SetRetryPolicy(v)
  BY <1>9, RetryPolicyLeaves DEF Makes
<1>10. CASE o = "host_listener" /\ Setter(o, v) = SetHostListener(v)
  BY <1>10, HostListenerLeaves DEF Makes
<1>11. CASE o \in GssapiOptions /\ Setter(o, v) = SetGssapi(o, v)
  BY <1>11, GssapiLeaves DEF Makes
<1>12. CASE o \in PlaintextOptions /\ Setter(o, v) = SetPlaintext(o, v)
  BY <1>12, PlaintextLeaves DEF Makes
<1> QED
  BY SetterIs, <1>1, <1>2, <1>3, <1>4, <1>5, <1>6, <1>7, <1>8, <1>9, <1>10, <1>11, <1>12

--------------------------------------------------------------------------------
(* One setter of __init__.                                                         *)

LEMMA MadeFacts ==
  ASSUME refs \in [Kinds -> Nat], NEW k \in Kinds, NEW n \in Nat
  PROVE  /\ Made(k, n) \in [Kinds -> Nat] /\ Made(k, n)[k] = refs[k] + n
         /\ \A q \in Kinds : q # k => Made(k, n)[q] = refs[q]
BY DEF Made

LEMMA NormalFacts ==
  ASSUME TypeOK, NEW o \in Options
  PROVE  /\ Normal(o) = None <=> args[o] = None
         /\ o \notin TimeoutOptions => Normal(o) = args[o] /\ Normal(o) \in ValuesOf(o)
<1>1. args[o] \in ValuesOf(o)
  BY DEF TypeOK
<1>2. CASE o \in TimeoutOptions /\ args[o] # None
  <2>1. args[o] \in Nat
    BY <1>1, <1>2, ValueFacts
  <2>2. args[o] \div 1000 \in Nat
    BY <2>1
  <2>3. Normal(o) = args[o] \div 1000
    BY <1>2 DEF Normal
  <2>4. None \notin Nat
    BY NoneIsNoValue DEF NoneIsNoValue
  <2> QED
    BY <1>2, <2>2, <2>3, <2>4
<1>3. CASE ~(o \in TimeoutOptions /\ args[o] # None)
  BY <1>1, <1>3 DEF Normal
<1> QED
  BY <1>2, <1>3

(* What the next setter of __init__ is and does.                                   *)
LEMMA NextSetter ==
  ASSUME TypeOK, InitStep
  PROVE  LET o == InitOrder[step + 1]
         IN  /\ step + 1 \in 1..60 /\ step' = step + 1 /\ o \in Options
             /\ \E out \in Setter(o, Normal(o)) :
                  /\ conf' = out.conf /\ refs' = out.refs
                  /\ (IF out.ok THEN Leaves(o, Normal(o), out) ELSE Restores(out)) /\ Makes(o, Normal(o), out)
                  /\ out.ok /\ o \in PlaintextOptions => args[o] = None
                  /\ outcome' = IF out.ok THEN "returned" ELSE "raised"
                  /\ status' = IF ~out.ok THEN "raised" ELSE IF step' = 60 THEN "ready" ELSE "init"
<1> DEFINE o == InitOrder[step + 1]
<1>1. step + 1 \in 1..60 /\ step' = step + 1 /\ status = "init" /\ o \in Options
  BY OrderLength, EachIsAnOption DEF TypeOK, InitStep
<1>2. PICK out \in IF o \in PlaintextOptions THEN InitPlaintext(args[o]) ELSE Setter(o, Normal(o)) :
        /\ conf' = out.conf /\ refs' = out.refs
        /\ outcome' = IF out.ok THEN "returned" ELSE "raised"
        /\ status' = CASE ~out.ok -> "raised"
                       [] out.ok /\ step' = Len(InitOrder) -> "ready"
                       [] OTHER -> status
  BY <1>1 DEF InitStep
<1> HIDE DEF o
<1>3. status' = IF ~out.ok THEN "raised" ELSE IF step' = 60 THEN "ready" ELSE "init"
  BY <1>1, <1>2, OrderLength
<1>4. out \in Setter(o, Normal(o)) /\ (out.ok /\ o \in PlaintextOptions => args[o] = None)
  <2>1. CASE o \in PlaintextOptions
    <3>1. /\ o \notin Plain /\ o \notin TimeoutOptions
      BY <2>1, Apart
    <3>2. Normal(o) = args[o]
      BY <1>1, <3>1, NormalFacts
    <3>3. Setter(o, Normal(o)) = SetPlaintext(o, args[o])
      BY <1>1, <2>1, <3>1, <3>2, SetterIs
         DEF PlaintextOptions, GssapiOptions, ReconnectOptions, BalanceOptions
    <3>4. out \in InitPlaintext(args[o])
      BY <1>2, <2>1
    <3>5. out \in SetPlaintext(o, args[o]) /\ (args[o] # None => out = Raises(conf, refs))
      BY <3>4 DEF InitPlaintext, SetPlaintext, Refused
    <3> QED
      BY <3>3, <3>5, Ends
  <2>2. CASE o \notin PlaintextOptions
    BY <1>2, <2>2
  <2> QED
    BY <2>1, <2>2
<1>5. /\ (IF out.ok THEN Leaves(o, Normal(o), out) ELSE Restores(out))
      /\ Makes(o, Normal(o), out)
  <2>1. DOMAIN conf = Settings /\ refs \in [Kinds -> Nat]
    BY DEF TypeOK
  <2>2. "credentials" \notin TimeoutOptions /\ "timestamp_gen" \notin TimeoutOptions
    BY DEF TimeoutOptions
  <2>3. o \in {"credentials", "timestamp_gen"} => Normal(o) \in ValuesOf(o)
    BY <1>1, <2>2, NormalFacts
  <2> QED
    BY <1>1, <1>4, <2>1, <2>3, SetterLeaves
<1> QED
  BY <1>1, <1>2, <1>3, <1>4, <1>5 DEF o

LEMMA SettingsStep ==
  ASSUME TypeOK, SettingsSoFar, InitStep
  PROVE  SettingsSoFar'
<1> DEFINE i == step + 1
           o == InitOrder[i]
           v == Normal(o)
<1>0. /\ PlainSoFar /\ ReconnectSoFar /\ BalanceSoFar /\ SslSoFar /\ AuthSoFar /\ NamesSoFar
      /\ args' = args /\ step \in Nat
  BY OrderLength DEF SettingsSoFar, InitStep, TypeOK
<1>1. /\ i \in 1..60 /\ step' = i /\ o \in Options
      /\ \E out \in Setter(o, v) :
           /\ conf' = out.conf
           /\ IF out.ok THEN Leaves(o, v, out) ELSE Restores(out)
           /\ out.ok /\ o \in PlaintextOptions => args[o] = None
           /\ status' = IF ~out.ok THEN "raised" ELSE IF step' = 60 THEN "ready" ELSE "init"
  BY NextSetter
<1>2. /\ o = "credentials" <=> i = 12
      /\ o = "hostname_resolution" <=> i = 15
      /\ o = "ssl" <=> i = 16
      /\ o = "constant_reconnect" <=> i = 20
      /\ o = "exponential_reconnect" <=> i = 21
      /\ o = "round_robin" <=> i = 28
      /\ o = "dc_aware" <=> i = 29
      /\ o = "rack_aware" <=> i = 30
      /\ o = "dse_gssapi" <=> i = 57
      /\ o = "dse_gssapi_proxy" <=> i = 58
  BY <1>1, Special
<1>3. /\ v = None <=> args[o] = None
      /\ o \notin TimeoutOptions => v = args[o]
  BY <1>1, NormalFacts
<1>4. \A s : Done(s)' <=> Done(s) \/ s = o
  BY <1>0, <1>1 DEF Done
<1>5. \A s : Normal(s)' = Normal(s)
  BY <1>0 DEF Normal
<1>6. i = step + 1
  OBVIOUS
<1>7. v = Normal(o)
  OBVIOUS
<1> HIDE DEF i, o, v
<1> SUFFICES ASSUME status' = "init" \/ status' = "ready"
             PROVE  (PlainSoFar /\ ReconnectSoFar /\ BalanceSoFar /\ SslSoFar /\ AuthSoFar /\ NamesSoFar)'
  BY DEF SettingsSoFar, InitStep
<1>8. PICK out \in Setter(o, v) :
        /\ conf' = out.conf /\ Leaves(o, v, out)
        /\ o \in PlaintextOptions => args[o] = None
  BY <1>1
<1>9. o \notin TimeoutOptions => (o \in PlaintextOptions => v = None)
  BY <1>3, <1>8
<1>10. /\ \A x \in {"credentials", "hostname_resolution", "ssl", "constant_reconnect", "exponential_reconnect",
                     "round_robin", "dc_aware", "rack_aware", "dse_gssapi", "dse_gssapi_proxy"} :
            o = x => v = args[x]
       /\ o \in PlaintextOptions => v = None
  BY <1>3, <1>9 DEF TimeoutOptions, PlaintextOptions
<1>11. PlainSoFar'
  <2> SUFFICES ASSUME NEW s \in Plain \ {"hostname_resolution"}
               PROVE  conf'[s] = IF Done(s)' /\ args[s] # None THEN Normal(s)' ELSE Unset
    BY <1>0 DEF PlainSoFar
  <2>1. conf'[s] = IF s = o /\ v # None THEN v ELSE conf[s]
    BY <1>8 DEF Leaves
  <2>2. conf[s] = IF Done(s) /\ args[s] # None THEN Normal(s) ELSE Unset
    BY <1>0 DEF PlainSoFar
  <2> QED
    BY <1>3, <1>4, <1>5, <1>7, <2>1, <2>2
<1>12. ReconnectSoFar'
  <2>1. conf'["reconnect"] = IF o \in {"constant_reconnect", "exponential_reconnect"} /\ v # None
                             THEN o ELSE conf["reconnect"]
    BY <1>8 DEF Leaves, ReconnectOptions
  <2> QED
    BY <1>0, <1>1, <1>2, <1>6, <1>10, <2>1 DEF ReconnectSoFar
<1>13. BalanceSoFar'
  <2>1. conf'["load_balance"] = IF \/ o = "round_robin" /\ v # "True"
                                   \/ o \in {"dc_aware", "rack_aware"} /\ v # None
                                THEN o ELSE conf["load_balance"]
    BY <1>8 DEF Leaves
  <2> QED
    BY <1>0, <1>1, <1>2, <1>6, <1>10, <2>1 DEF BalanceSoFar
<1>14. SslSoFar'
  <2>1. conf'["ssl"] = IF o = "ssl" /\ v # "disabled" THEN v ELSE conf["ssl"]
    BY <1>8 DEF Leaves
  <2> QED
    BY <1>0, <1>1, <1>2, <1>6, <1>10, <2>1 DEF SslSoFar, SslNow
<1>15. AuthSoFar'
  <2>1. conf'["auth"] = IF o = "credentials" /\ v = "both" THEN "credentials"
                        ELSE IF o \in {"dse_gssapi", "dse_gssapi_proxy"} /\ v # None THEN o ELSE conf["auth"]
    BY <1>8, <1>10 DEF Leaves, GssapiOptions
  <2> QED
    BY <1>0, <1>1, <1>2, <1>6, <1>10, <2>1 DEF AuthSoFar, ProxyNow, GssapiNow
<1>16. NamesSoFar'
  <2>1. conf'["hostname_resolution"] =
          IF o = "hostname_resolution" /\ v # None THEN v
          ELSE IF \/ o = "ssl" /\ v = "PEER_IDENTITY_DNS"
                  \/ o \in {"dse_gssapi", "dse_gssapi_proxy"} /\ v # None
          THEN "True" ELSE conf["hostname_resolution"]
    BY <1>8 DEF Leaves, GssapiOptions
  <2> QED
    BY <1>0, <1>1, <1>2, <1>6, <1>10, <2>1 DEF NamesSoFar, SslNow, ProxyNow, GssapiNow
<1> QED
  BY <1>11, <1>12, <1>13, <1>14, <1>15, <1>16

(* What a setter adds to the objects.                                              *)
LEMMA MakesFacts ==
  ASSUME refs \in [Kinds -> Nat], NEW o, NEW v, NEW out, Makes(o, v, out)
  PROVE  /\ out.refs \in [Kinds -> Nat]
         /\ \A k \in {"cluster", "profile", "retry_policy"} : out.refs[k] = refs[k]
         /\ out.refs["ssl"] = refs["ssl"] \/ (o = "ssl" /\ out.refs["ssl"] = refs["ssl"] + 1)
         /\ \/ out.refs["timestamp_gen"] = refs["timestamp_gen"]
            \/ /\ o = "timestamp_gen" /\ (out.ok => v = "monotonic")
               /\ out.refs["timestamp_gen"] = refs["timestamp_gen"] + 1
         /\ out.refs["ssl"] <= refs["ssl"] + 1 /\ out.refs["timestamp_gen"] <= refs["timestamp_gen"] + 1
<1>1. "ssl" \in Kinds /\ "timestamp_gen" \in Kinds /\ {"cluster", "profile", "retry_policy"} \subseteq Kinds
  BY DEF Kinds
<1>0. refs["ssl"] \in Nat /\ refs["timestamp_gen"] \in Nat
  BY <1>1
<1>2. CASE out.refs = refs
  BY <1>0, <1>2
<1>3. CASE o = "ssl" /\ out.refs = Made("ssl", 1)
  <2>1. /\ out.refs \in [Kinds -> Nat] /\ out.refs["ssl"] = refs["ssl"] + 1
        /\ \A q \in Kinds : q # "ssl" => out.refs[q] = refs[q]
    <3>1. /\ Made("ssl", 1) \in [Kinds -> Nat] /\ Made("ssl", 1)["ssl"] = refs["ssl"] + 1
          /\ \A q \in Kinds : q # "ssl" => Made("ssl", 1)[q] = refs[q]
      BY <1>1, MadeFacts
    <3> QED
      BY <1>3, <3>1, Zenon
  <2>2. \A q \in {"cluster", "profile", "retry_policy", "timestamp_gen"} : out.refs[q] = refs[q]
    BY <1>1, <2>1
  <2>3. o = "ssl"
    BY <1>3
  <2>4. out.refs["ssl"] <= refs["ssl"] + 1 /\ out.refs["timestamp_gen"] <= refs["timestamp_gen"] + 1
    BY <1>0, <2>1, <2>2
  <2> QED
    BY <2>1, <2>2, <2>3, <2>4, Zenon
<1>4. CASE o = "timestamp_gen" /\ out.refs = Made("timestamp_gen", 1) /\ (out.ok => v = "monotonic")
  <2>1. /\ out.refs \in [Kinds -> Nat] /\ out.refs["timestamp_gen"] = refs["timestamp_gen"] + 1
        /\ \A q \in Kinds : q # "timestamp_gen" => out.refs[q] = refs[q]
    <3>1. /\ Made("timestamp_gen", 1) \in [Kinds -> Nat] /\ Made("timestamp_gen", 1)["timestamp_gen"] = refs["timestamp_gen"] + 1
          /\ \A q \in Kinds : q # "timestamp_gen" => Made("timestamp_gen", 1)[q] = refs[q]
      BY <1>1, MadeFacts
    <3> QED
      BY <1>4, <3>1, Zenon
  <2>2. \A q \in {"cluster", "profile", "retry_policy", "ssl"} : out.refs[q] = refs[q]
    BY <1>1, <2>1
  <2>3. o = "timestamp_gen" /\ (out.ok => v = "monotonic")
    BY <1>4
  <2>4. out.refs["ssl"] <= refs["ssl"] + 1 /\ out.refs["timestamp_gen"] <= refs["timestamp_gen"] + 1
    BY <1>0, <2>1, <2>2
  <2> QED
    BY <2>1, <2>2, <2>3, <2>4, Zenon
<1> QED
  BY <1>2, <1>3, <1>4 DEF Makes, Keeps

LEMMA InitStepInv ==
  ASSUME IInv, InitStep
  PROVE  IInv'
<1> DEFINE i == step + 1
           o == InitOrder[i]
           v == Normal(o)
<1>0. TypeOK /\ SettingsSoFar /\ ObjectsSoFar /\ status = "init" /\ UNCHANGED <<args, calls>>
  BY DEF IInv, InitStep
<1>1. /\ i \in 1..60 /\ step' = i /\ o \in Options
      /\ \E out \in Setter(o, v) :
           /\ conf' = out.conf /\ refs' = out.refs
           /\ (IF out.ok THEN Leaves(o, v, out) ELSE Restores(out)) /\ Makes(o, v, out)
           /\ status' = IF ~out.ok THEN "raised" ELSE IF step' = 60 THEN "ready" ELSE "init"
  BY <1>0, NextSetter
<1>2. (o = "ssl" <=> i = 16) /\ (o = "timestamp_gen" <=> i = 43)
  BY <1>1, Special
<1>3. o = "timestamp_gen" => v = args["timestamp_gen"]
  BY <1>0, <1>1, NormalFacts DEF TimeoutOptions
<1>4. i = step + 1 /\ step \in Nat
  BY <1>0, OrderLength DEF TypeOK
<1> HIDE DEF i, o, v
<1>5. PICK out \in Setter(o, v) :
        /\ conf' = out.conf /\ refs' = out.refs
        /\ (IF out.ok THEN Leaves(o, v, out) ELSE Restores(out)) /\ Makes(o, v, out)
        /\ status' = IF ~out.ok THEN "raised" ELSE IF step' = 60 THEN "ready" ELSE "init"
  BY <1>1
<1>6. DOMAIN conf' = Settings
  BY <1>5 DEF Leaves, Restores
<1>7. /\ refs' \in [Kinds -> Nat]
      /\ \A k \in {"cluster", "profile", "retry_policy"} : refs'[k] = refs[k]
      /\ refs'["ssl"] = refs["ssl"] \/ (i = 16 /\ refs'["ssl"] = refs["ssl"] + 1)
      /\ \/ refs'["timestamp_gen"] = refs["timestamp_gen"]
         \/ /\ i = 43 /\ (status' # "raised" => args["timestamp_gen"] = "monotonic")
            /\ refs'["timestamp_gen"] = refs["timestamp_gen"] + 1
  <2>1. refs \in [Kinds -> Nat]
    BY <1>0 DEF TypeOK
  <2> QED
    BY <1>2, <1>3, <1>5, <2>1, MakesFacts
<1>8. status' \in {"raised", "ready", "init"} /\ (status' = "ready" => i = 60) /\ (status' = "init" => i # 60)
  BY <1>1, <1>5
<1>9. TypeOK'
  <2>1. \A q \in Options : args'[q] \in ValuesOf(q)
    BY <1>0 DEF TypeOK
  <2> QED
    BY <1>0, <1>1, <1>6, <1>7, <1>8, <2>1, OrderLength DEF TypeOK
<1>10. SettingsSoFar'
  BY <1>0, SettingsStep DEF IInv
<1>11. ObjectsSoFar'
  <2>1. /\ refs["cluster"] = 1 /\ refs["profile"] = 0 /\ refs["retry_policy"] = 0 /\ calls = 0
        /\ refs["ssl"] <= (IF step >= 16 THEN 1 ELSE 0)
        /\ refs["timestamp_gen"] <= (IF step >= 43 THEN Generators ELSE 0)
    BY <1>0 DEF ObjectsSoFar
  <2>2. refs["ssl"] \in Nat /\ refs["timestamp_gen"] \in Nat
    BY <1>0 DEF TypeOK, Kinds
  <2>3. Generators' = Generators /\ Generators = IF args["timestamp_gen"] = "monotonic" THEN 1 ELSE 0
    BY <1>0, <2>1 DEF Generators
  <2>4. refs'["ssl"] <= (IF i >= 16 THEN 1 ELSE 0)
    BY <1>1, <1>4, <1>7, <2>1, <2>2
  <2>5. status' # "raised" => refs'["timestamp_gen"] <= (IF i >= 43 THEN Generators ELSE 0)
    BY <1>1, <1>4, <1>7, <2>1, <2>2, <2>3
  <2>6. refs'["cluster"] = 1 /\ refs'["profile"] = 0 /\ refs'["retry_policy"] = 0 /\ calls' = 0
    BY <1>0, <1>7, <2>1
  <2>7. refs'["ssl"] \in Nat /\ refs'["timestamp_gen"] \in Nat /\ Generators \in Nat
    BY <1>7, <2>1, <2>3 DEF Kinds
  <2>8. CASE status' = "init"
    BY <1>1, <2>3, <2>4, <2>5, <2>6, <2>8 DEF ObjectsSoFar
  <2>9. CASE status' = "ready"
    <3>1. refs'["ssl"] <= 1 /\ refs'["timestamp_gen"] <= Generators
      BY <1>8, <2>4, <2>5, <2>9
    <3>2. /\ refs'["ssl"] + refs'["profile"] <= calls' + 1 /\ refs'["profile"] <= calls'
          /\ ~(refs'["retry_policy"] > 0)
      BY <2>6, <2>7, <3>1
    <3> QED
      BY <2>3, <2>6, <2>9, <3>1, <3>2 DEF ObjectsSoFar
  <2>10. CASE status' = "raised"
    BY <2>10 DEF ObjectsSoFar
  <2> QED
    BY <1>8, <2>8, <2>9, <2>10
<1>12. ObjectsGivenBack'
  BY <1>7, <1>8 DEF ObjectsGivenBack
<1> QED
  BY <1>9, <1>10, <1>11, <1>12 DEF IInv

LEMMA CreateClusterInv ==
  ASSUME IInv, CreateCluster
  PROVE  IInv'
<1>1. /\ TypeOK /\ SettingsSoFar /\ ObjectsSoFar /\ status = "new"
      /\ UNCHANGED <<args, step, conf, calls>> /\ step = 0
  BY DEF IInv, CreateCluster, TypeOK
<1>2. \/ status' = "raised" /\ refs' = refs
      \/ status' = "init" /\ refs' = Made("cluster", 1)
  BY DEF CreateCluster
<1>3. refs \in [Kinds -> Nat] /\ (\A k \in Kinds : refs[k] = 0) /\ calls = 0
  BY <1>1 DEF TypeOK, ObjectsSoFar
<1>4. "cluster" \in Kinds /\ {"ssl", "profile", "retry_policy", "timestamp_gen"} \subseteq Kinds \ {"cluster"}
  BY DEF Kinds
<1>5. /\ Made("cluster", 1) \in [Kinds -> Nat] /\ Made("cluster", 1)["cluster"] = refs["cluster"] + 1
      /\ \A q \in Kinds : q # "cluster" => Made("cluster", 1)[q] = refs[q]
  BY <1>3, <1>4, MadeFacts
<1>6. refs' \in [Kinds -> Nat]
  BY <1>2, <1>3, <1>5
<1>7. TypeOK'
  <2>1. \A q \in Options : args'[q] \in ValuesOf(q)
    BY <1>1 DEF TypeOK
  <2> QED
    BY <1>1, <1>2, <1>6, <2>1, OrderLength DEF TypeOK
<1>8. SettingsSoFar'
  <2>1. PlainSoFar /\ ReconnectSoFar /\ BalanceSoFar /\ SslSoFar /\ AuthSoFar /\ NamesSoFar
    BY <1>1 DEF SettingsSoFar
  <2>2. (PlainSoFar /\ ReconnectSoFar /\ BalanceSoFar /\ SslSoFar /\ AuthSoFar /\ NamesSoFar)'
    BY <1>1, <2>1 DEF PlainSoFar, ReconnectSoFar, BalanceSoFar, SslSoFar, AuthSoFar, NamesSoFar, Done, Normal, SslNow,
                      GssapiNow, ProxyNow
  <2> QED
    BY <2>2 DEF SettingsSoFar
<1>9. ObjectsSoFar'
  <2>1. CASE status' = "raised"
    BY <2>1 DEF ObjectsSoFar
  <2>2. CASE status' = "init"
    <3>1. /\ refs'["cluster"] = 1 /\ refs'["profile"] = 0 /\ refs'["retry_policy"] = 0 /\ calls' = 0
          /\ refs'["ssl"] = 0 /\ refs'["timestamp_gen"] = 0 /\ step' = 0
      BY <1>1, <1>2, <1>3, <1>4, <1>5, <2>2
    <3> QED
      BY <2>2, <3>1 DEF ObjectsSoFar
  <2> QED
    BY <1>2, <2>1, <2>2
<1>10. ObjectsGivenBack'
  BY <1>2, <1>6 DEF ObjectsGivenBack
<1> QED
  BY <1>7, <1>8, <1>9, <1>10 DEF IInv

(* A call after __init__ adds at most one object of a kind.                        *)
LEMMA CalledInv ==
  ASSUME IInv, status = "ready", calls' = calls + 1, UNCHANGED <<args, status, step>>,
         DOMAIN conf' = Settings, refs' \in [Kinds -> Nat], refs'["cluster"] = refs["cluster"],
         refs'["ssl"] + refs'["profile"] <= refs["ssl"] + refs["profile"] + 1,
         refs'["profile"] <= refs["profile"] + 1,
         refs'["profile"] > refs["profile"] \/ (refs'["profile"] = refs["profile"] /\ refs'["retry_policy"] = refs["retry_policy"]),
         refs'["timestamp_gen"] <= refs["timestamp_gen"] + 1
  PROVE  IInv'
<1>1. TypeOK /\ ObjectsSoFar /\ calls \in Nat /\ refs \in [Kinds -> Nat]
  BY DEF IInv, TypeOK
<1>2. TypeOK'
  <2>1. \A q \in Options : args'[q] \in ValuesOf(q)
    BY <1>1 DEF TypeOK
  <2> QED
    BY <1>1, <2>1 DEF TypeOK
<1>3. SettingsSoFar'
  BY <1>1 DEF SettingsSoFar
<1>4. ObjectsSoFar'
  <2>1. /\ refs["cluster"] = 1
        /\ refs["ssl"] + refs["profile"] <= calls + 1 /\ refs["profile"] <= calls
        /\ refs["retry_policy"] > 0 => refs["profile"] > 0
        /\ refs["timestamp_gen"] <= Generators
    BY <1>1 DEF ObjectsSoFar
  <2>2. \A k \in {"ssl", "profile", "retry_policy", "timestamp_gen"} : refs[k] \in Nat /\ refs'[k] \in Nat
    BY <1>1 DEF Kinds
  <2>3. Generators' = Generators + 1 /\ Generators \in Nat
    BY <1>1 DEF Generators
  <2>4. /\ refs'["ssl"] + refs'["profile"] <= calls' + 1 /\ refs'["profile"] <= calls'
        /\ refs'["timestamp_gen"] <= Generators'
    BY <1>1, <2>1, <2>2, <2>3
  <2>5. refs'["retry_policy"] > 0 => refs'["profile"] > 0
    BY <2>1, <2>2
  <2> QED
    BY <2>1, <2>4, <2>5 DEF ObjectsSoFar
<1>5. ObjectsGivenBack'
  BY DEF ObjectsGivenBack
<1> QED
  BY <1>2, <1>3, <1>4, <1>5 DEF IInv

LEMMA CallInv ==
  ASSUME IInv, NEW o \in Varied, NEW v \in ValuesOf(o), Call(o, v)
  PROVE  IInv'
<1>1. PICK out \in Setter(o, v) : Called(out)
  BY DEF Call
<1>2. DOMAIN conf = Settings /\ refs \in [Kinds -> Nat] /\ o \in Options
  BY VariedAreOptions DEF IInv, TypeOK
<1>3. (IF out.ok THEN Leaves(o, v, out) ELSE Restores(out)) /\ Makes(o, v, out)
  BY <1>2, SetterLeaves
<1>4. DOMAIN out.conf = Settings
  BY <1>3 DEF Leaves, Restores
<1>5. /\ out.refs \in [Kinds -> Nat]
      /\ \A k \in {"cluster", "profile", "retry_policy"} : out.refs[k] = refs[k]
      /\ out.refs["ssl"] <= refs["ssl"] + 1 /\ out.refs["timestamp_gen"] <= refs["timestamp_gen"] + 1
  BY <1>2, <1>3, MakesFacts
<1>6. /\ status = "ready" /\ calls' = calls + 1 /\ UNCHANGED <<args, status, step>>
      /\ conf' = out.conf /\ refs' = out.refs
  BY <1>1 DEF Called
<1>7. \A k \in {"ssl", "profile", "retry_policy", "timestamp_gen"} : refs[k] \in Nat /\ refs'[k] \in Nat
  BY <1>2, <1>5, <1>6 DEF Kinds
<1>8. /\ refs'["cluster"] = refs["cluster"] /\ refs'["profile"] = refs["profile"]
      /\ refs'["retry_policy"] = refs["retry_policy"]
      /\ refs'["ssl"] <= refs["ssl"] + 1 /\ refs'["timestamp_gen"] <= refs["timestamp_gen"] + 1
      /\ refs' \in [Kinds -> Nat] /\ DOMAIN conf' = Settings
  BY <1>4, <1>5, <1>6
<1>9. /\ refs'["ssl"] + refs'["profile"] <= refs["ssl"] + refs["profile"] + 1
      /\ refs'["profile"] <= refs["profile"] + 1
  BY <1>7, <1>8
<1> QED
  BY <1>6, <1>8, <1>9, CalledInv

LEMMA SetNoSpeculativeExecutionInv ==
  ASSUME IInv, SetNoSpeculativeExecution
  PROVE  IInv'
<1>1. DOMAIN conf = Settings /\ refs \in [Kinds -> Nat]
  BY DEF IInv, TypeOK
<1>2. PICK out \in {Returns(With("speculative_execution", "none"), refs)} \cup Refused : Called(out)
  BY DEF SetNoSpeculativeExecution
<1>3. out = Returns(With("speculative_execution", "none"), refs) \/ out = Raises(conf, refs)
  BY <1>2 DEF Refused
<1>4. DOMAIN With("speculative_execution", "none") = Settings
  BY <1>1 DEF With
<1>5. DOMAIN out.conf = Settings /\ out.refs = refs
  BY <1>1, <1>3, <1>4, Ends
<1>6. /\ status = "ready" /\ calls' = calls + 1 /\ UNCHANGED <<args, status, step>>
      /\ DOMAIN conf' = Settings /\ refs' = refs
  BY <1>2, <1>5 DEF Called
<1>7. \A k \in {"ssl", "profile", "timestamp_gen"} : refs[k] \in Nat
  BY <1>1 DEF Kinds
<1>8. /\ refs'["ssl"] + refs'["profile"] <= refs["ssl"] + refs["profile"] + 1
      /\ refs'["profile"] <= refs["profile"] + 1 /\ refs'["timestamp_gen"] <= refs["timestamp_gen"] + 1
  BY <1>6, <1>7
<1> QED
  BY <1>1, <1>6, <1>8, CalledInv

LEMMA CreateProfileInv ==
  ASSUME IInv, NEW given, NEW policy, CreateProfile(given, policy)
  PROVE  IInv'
<1>1. DOMAIN conf = Settings /\ refs \in [Kinds -> Nat]
  BY DEF IInv, TypeOK
<1>2. status = "ready" /\ calls' = calls + 1 /\ UNCHANGED <<args, status, step, conf>>
  BY DEF CreateProfile
<1>3. \/ refs' = refs
      \/ refs' = Made("profile", 1)
      \/ \E made \in Nat : refs' = [Made("profile", 1) EXCEPT !["retry_policy"] = @ + made]
  <2>1. (CASE policy = "wrong" -> 0 [] policy = "default logged" -> 2 [] OTHER -> 1) \in Nat
    OBVIOUS
  <2> QED
    BY <2>1 DEF CreateProfile
<1>4. \A k \in {"cluster", "ssl", "profile", "timestamp_gen", "retry_policy"} : k \in Kinds /\ refs[k] \in Nat
  BY <1>1 DEF Kinds
<1>5. /\ Made("profile", 1) \in [Kinds -> Nat] /\ Made("profile", 1)["profile"] = refs["profile"] + 1
      /\ \A q \in Kinds : q # "profile" => Made("profile", 1)[q] = refs[q]
  BY <1>1, <1>4, MadeFacts
<1>6. CASE refs' = refs
  <2>1. /\ refs'["ssl"] + refs'["profile"] <= refs["ssl"] + refs["profile"] + 1
        /\ refs'["profile"] <= refs["profile"] + 1 /\ refs'["timestamp_gen"] <= refs["timestamp_gen"] + 1
    BY <1>4, <1>6
  <2> QED
    BY <1>1, <1>2, <1>6, <2>1, CalledInv
<1>7. ASSUME refs' \in [Kinds -> Nat], refs'["profile"] = refs["profile"] + 1,
             refs'["cluster"] = refs["cluster"], refs'["ssl"] = refs["ssl"],
             refs'["timestamp_gen"] = refs["timestamp_gen"]
      PROVE  IInv'
  <2>1. /\ refs'["ssl"] + refs'["profile"] <= refs["ssl"] + refs["profile"] + 1
        /\ refs'["profile"] <= refs["profile"] + 1 /\ refs'["timestamp_gen"] <= refs["timestamp_gen"] + 1
        /\ refs'["profile"] > refs["profile"]
    BY <1>4, <1>7
  <2> QED
    BY <1>1, <1>2, <1>7, <2>1, CalledInv
<1>8. CASE refs' = Made("profile", 1)
  <2>1. /\ refs' \in [Kinds -> Nat] /\ refs'["profile"] = refs["profile"] + 1
        /\ refs'["cluster"] = refs["cluster"] /\ refs'["ssl"] = refs["ssl"]
        /\ refs'["timestamp_gen"] = refs["timestamp_gen"]
    BY <1>4, <1>5, <1>8
  <2> QED
    BY <1>7, <2>1
<1>9. ASSUME NEW made \in Nat, refs' = [Made("profile", 1) EXCEPT !["retry_policy"] = @ + made]
      PROVE  IInv'
  <2>1. /\ refs' \in [Kinds -> Nat]
        /\ \A q \in {"cluster", "ssl", "profile", "timestamp_gen"} : refs'[q] = Made("profile", 1)[q]
    BY <1>4, <1>5, <1>9
  <2>2. /\ refs'["profile"] = refs["profile"] + 1
        /\ refs'["cluster"] = refs["cluster"] /\ refs'["ssl"] = refs["ssl"]
        /\ refs'["timestamp_gen"] = refs["timestamp_gen"]
    BY <1>4, <1>5, <2>1
  <2> QED
    BY <1>7, <2>1, <2>2
<1> QED
  BY <1>3, <1>6, <1>8, <1>9

LEMMA FreeInv ==
  ASSUME IInv, Free
  PROVE  IInv'
<1>1. TypeOK /\ ObjectsSoFar /\ status = "ready" /\ refs \in [Kinds -> Nat] /\ calls \in Nat
  BY DEF IInv, TypeOK, Free
<1>2. status' = "freed" /\ UNCHANGED <<args, step, conf, profile, calls>>
  BY DEF Free
<1>3. /\ refs["cluster"] = 1
      /\ refs["ssl"] + refs["profile"] <= calls + 1 /\ refs["profile"] <= calls
      /\ refs["retry_policy"] > 0 => refs["profile"] > 0
      /\ refs["timestamp_gen"] <= Generators
  BY <1>1 DEF ObjectsSoFar
<1>4. /\ refs'["cluster"] = 0 /\ refs'["ssl"] = IF refs["ssl"] > 0 THEN refs["ssl"] - 1 ELSE refs["ssl"]
      /\ \A k \in {"profile", "retry_policy", "timestamp_gen"} : refs'[k] = refs[k]
      /\ DOMAIN refs' = Kinds
  BY <1>1, <1>3 DEF Free, Kinds
<1>5. \A k \in Kinds : refs[k] \in Nat
  BY <1>1
<1>6. \A k \in Kinds : refs'[k] \in Nat
  BY <1>4, <1>5 DEF Kinds
<1>7. refs' \in [Kinds -> Nat]
  <2>1. refs' = [refs EXCEPT !["cluster"] = @ - 1, !["ssl"] = IF @ > 0 THEN @ - 1 ELSE @]
    BY DEF Free
  <2> QED
    BY <1>1, <1>3, <2>1 DEF Kinds
<1>8. TypeOK'
  <2>1. \A q \in Options : args'[q] \in ValuesOf(q)
    BY <1>1, <1>2 DEF TypeOK
  <2> QED
    BY <1>1, <1>2, <1>7, <2>1 DEF TypeOK
<1>9. SettingsSoFar' /\ ObjectsSoFar'
  BY <1>2 DEF SettingsSoFar, ObjectsSoFar
<1>10. ObjectsGivenBack'
  <2>1. refs["ssl"] \in Nat /\ refs["profile"] \in Nat
    BY <1>5 DEF Kinds
  <2>2. refs'["ssl"] + refs'["profile"] <= calls'
    BY <1>1, <1>2, <1>3, <1>4, <2>1
  <2>3. /\ refs'["retry_policy"] > 0 => refs'["profile"] > 0
        /\ refs'["timestamp_gen"] <= (calls + (IF args["timestamp_gen"] = "monotonic" THEN 1 ELSE 0))'
    BY <1>2, <1>3, <1>4 DEF Generators
  <2> QED
    BY <1>4, <1>6, <2>2, <2>3 DEF ObjectsGivenBack
<1> QED
  BY <1>8, <1>9, <1>10 DEF IInv

LEMMA InitInv == ConfigInit => IInv
<1> SUFFICES ASSUME ConfigInit PROVE IInv
  OBVIOUS
<1>1. /\ status = "new" /\ step = 0 /\ calls = 0
      /\ conf = [s \in Settings |-> Unset] /\ refs = [k \in Kinds |-> 0]
  BY DEF ConfigInit, NothingDone
<1>2. TypeOK
  <2>1. PICK o1 \in Options, o2 \in Varied : \E v1 \in ValuesOf(o1), v2 \in ValuesOf(o2) :
          args = [[[o \in Options |-> DefaultArg(o)] EXCEPT ![o1] = v1] EXCEPT ![o2] = v2]
    BY DEF ConfigInit, NothingDone
  <2>0. PICK v1 \in ValuesOf(o1), v2 \in ValuesOf(o2) :
          args = [[[o \in Options |-> DefaultArg(o)] EXCEPT ![o1] = v1] EXCEPT ![o2] = v2]
    BY <2>1
  <2> DEFINE default == [o \in Options |-> DefaultArg(o)]
             one == [default EXCEPT ![o1] = v1]
  <2>2. DOMAIN default = Options /\ \A o \in Options : default[o] \in ValuesOf(o)
    BY DEF ValuesOf
  <2>3. args = [one EXCEPT ![o2] = v2] /\ one = [default EXCEPT ![o1] = v1]
    BY <2>0
  <2> HIDE DEF default
  <2>4. DOMAIN one = Options /\ \A o \in Options : one[o] \in ValuesOf(o)
    BY <2>2
  <2> HIDE DEF one
  <2>5. \A o \in Options : args[o] \in ValuesOf(o)
    BY <2>3, <2>4, VariedAreOptions
  <2>6. step \in 0..Len(InitOrder) /\ step < Len(InitOrder)
    BY <1>1, OrderLength
  <2>7. refs \in [Kinds -> Nat] /\ DOMAIN conf = Settings
    BY <1>1
  <2> QED
    BY <1>1, <2>5, <2>6, <2>7 DEF TypeOK
<1>3. SettingsSoFar
  <2>1. \A s \in Settings : conf[s] = Unset
    BY <1>1
  <2>2. \A s \in Plain : s \in Settings
    BY Elsewhere
  <2>3. \A s : ~Done(s)
    BY <1>1 DEF Done
  <2>4. PlainSoFar
    BY <2>1, <2>2, <2>3 DEF PlainSoFar
  <2>5. ReconnectSoFar /\ BalanceSoFar /\ SslSoFar /\ AuthSoFar /\ NamesSoFar
    BY <1>1, <2>1, Elsewhere
       DEF ReconnectSoFar, BalanceSoFar, SslSoFar, AuthSoFar, NamesSoFar, SslNow, GssapiNow, ProxyNow
  <2> QED
    BY <2>4, <2>5 DEF SettingsSoFar
<1>4. ObjectsSoFar /\ ObjectsGivenBack
  BY <1>1 DEF ObjectsSoFar, ObjectsGivenBack
<1> QED
  BY <1>2, <1>3, <1>4 DEF IInv

LEMMA StutterInv == IInv /\ UNCHANGED configVars => IInv'
<1> SUFFICES ASSUME IInv, UNCHANGED configVars PROVE IInv'
  OBVIOUS
<1> USE DEF IInv, configVars
<1>1. TypeOK'
  BY DEF TypeOK
<1>2. SettingsSoFar'
  BY DEF SettingsSoFar, PlainSoFar, ReconnectSoFar, BalanceSoFar, SslSoFar, AuthSoFar, NamesSoFar, Done, Normal,
         SslNow, GssapiNow, ProxyNow
<1>3. ObjectsSoFar' /\ ObjectsGivenBack'
  BY DEF ObjectsSoFar, ObjectsGivenBack, Generators
<1> QED
  BY <1>1, <1>2, <1>3

--------------------------------------------------------------------------------
(* What create_cluster promises.                                                   *)

(* Whatever the arguments, and whichever setter raised: the settings and objects   *)
(* are at every step those that the setters called so far account for.             *)
THEOREM Inductive == ConfigSpec => []IInv
<1>1. ConfigInit => IInv
  BY InitInv
<1>2. IInv /\ [ConfigNext]_configVars => IInv'
  <2> SUFFICES ASSUME IInv, [ConfigNext]_configVars PROVE IInv'
    OBVIOUS
  <2>1. CASE CreateCluster
    BY <2>1, CreateClusterInv
  <2>2. CASE InitStep
    BY <2>2, InitStepInv
  <2>3. CASE \E o \in Varied : \E v \in ValuesOf(o) : Call(o, v)
    BY <2>3, CallInv
  <2>4. CASE SetNoSpeculativeExecution
    BY <2>4, SetNoSpeculativeExecutionInv
  <2>5. CASE \E given \in Profiles, policy \in ValuesOf("retry_policy") : CreateProfile(given, policy)
    BY <2>5, CreateProfileInv
  <2>6. CASE Free
    BY <2>6, FreeInv
  <2>7. CASE UNCHANGED configVars
    BY <2>7, StutterInv
  <2> QED
    BY <2>1, <2>2, <2>3, <2>4, <2>5, <2>6, <2>7 DEF ConfigNext
<1> QED
  BY <1>1, <1>2, PTL DEF ConfigSpec

(* When __init__ returns, the driver holds what the documentation says the         *)
(* arguments ask for, and no policy nobody asked for; but for round_robin, and two *)
(* reconnection policies at once, of which InForce says nothing.                   *)
THEOREM ArgumentsAreInForce == ConfigSpec => []InForce
<1>1. IInv => InForce
  <2> SUFFICES ASSUME IInv, status = "ready", calls = 0 PROVE InForce
    BY DEF InForce
  <2>1. step = 60
    BY OrderLength DEF IInv, TypeOK
  <2>2. PlainSoFar /\ ReconnectSoFar /\ BalanceSoFar /\ SslSoFar /\ AuthSoFar
    BY DEF IInv, SettingsSoFar
  <2>3. \A o \in Plain : Done(o)
    BY <2>1, EachIsSet DEF Done
  <2>4. \A o \in Plain \ {"hostname_resolution"} : conf[o] = IF args[o] = None THEN Unset ELSE Normal(o)
    BY <2>2, <2>3 DEF PlainSoFar
  <2>5. conf["reconnect"] =
          CASE args["exponential_reconnect"] # None -> "exponential_reconnect"
            [] args["exponential_reconnect"] = None /\ args["constant_reconnect"] # None -> "constant_reconnect"
            [] OTHER -> Unset
    BY <2>1, <2>2 DEF ReconnectSoFar
  <2>6. conf["load_balance"] =
          CASE args["rack_aware"] # None -> "rack_aware"
            [] args["rack_aware"] = None /\ args["dc_aware"] # None -> "dc_aware"
            [] OTHER -> IF args["round_robin"] = "True" THEN Unset ELSE "round_robin"
    BY <2>1, <2>2 DEF BalanceSoFar
  <2>7. args["ssl"] # "disabled" => conf["ssl"] = args["ssl"]
    BY <2>1, <2>2 DEF SslSoFar, SslNow
  <2>8. conf["auth"] = CASE args["dse_gssapi_proxy"] # None -> "dse_gssapi_proxy"
                         [] args["dse_gssapi_proxy"] = None /\ args["dse_gssapi"] # None -> "dse_gssapi"
                         [] OTHER -> IF args["credentials"] = "both" THEN "credentials" ELSE Unset
    BY <2>1, <2>2 DEF AuthSoFar, ProxyNow, GssapiNow
  <2>9. /\ \A o \in ReconnectOptions :
              args[o] # None /\ (\A other \in ReconnectOptions \ {o} : args[other] = None) => conf["reconnect"] = o
        /\ conf["reconnect"] # Unset => args[conf["reconnect"]] # None
    BY <2>5 DEF ReconnectOptions
  <2>10. /\ args["rack_aware"] # None => conf["load_balance"] = "rack_aware"
         /\ args["rack_aware"] = None /\ args["dc_aware"] # None => conf["load_balance"] = "dc_aware"
         /\ conf["load_balance"] \in BalanceOptions \ {"round_robin"} => args[conf["load_balance"]] # None
    <3>1. Unset # "dc_aware" /\ Unset # "rack_aware"
      BY NoneIsNoValue DEF NoneIsNoValue
    <3> QED
      BY <2>6, <3>1 DEF BalanceOptions
  <2> QED
    BY <2>4, <2>7, <2>8, <2>9, <2>10 DEF InForce
<1> QED
  BY <1>1, Inductive, PTL

(* Whoever checks identities by name has the names, whichever of the setters that  *)
(* switch hostname resolution on came before or after the one that sets it.        *)
THEOREM IdentitiesHaveNames == ConfigSpec => []NamesForIdentity
<1>1. IInv => NamesForIdentity
  <2> SUFFICES ASSUME IInv, status = "ready", calls = 0 PROVE NamesForIdentity
    BY DEF NamesForIdentity
  <2>1. step = 60
    BY OrderLength DEF IInv, TypeOK
  <2>2. SslSoFar /\ AuthSoFar /\ NamesSoFar
    BY DEF IInv, SettingsSoFar
  <2>3. conf["ssl"] = "PEER_IDENTITY_DNS" <=> SslNow /\ args["ssl"] = "PEER_IDENTITY_DNS"
    BY <2>2, NoneIsNoValue DEF SslSoFar, NoneIsNoValue
  <2>4. conf["auth"] \in GssapiOptions <=> ProxyNow \/ GssapiNow
    BY <2>2, NoneIsNoValue DEF AuthSoFar, GssapiOptions, NoneIsNoValue
  <2>5. conf["hostname_resolution"] =
          IF conf["ssl"] = "PEER_IDENTITY_DNS" \/ conf["auth"] \in GssapiOptions THEN "True"
          ELSE IF args["hostname_resolution"] = None THEN Unset ELSE args["hostname_resolution"]
    BY <2>1, <2>2, <2>3, <2>4 DEF NamesSoFar
  <2> QED
    BY <2>5 DEF NamesForIdentity
<1> QED
  BY <1>1, Inductive, PTL

(* No driver object is freed twice, and a Cluster that is gone leaves behind only   *)
(* what later calls made, and the timestamp generator.                              *)
THEOREM ObjectsAreGivenBack == ConfigSpec => []ObjectsGivenBack
<1>1. IInv => ObjectsGivenBack
  BY DEF IInv
<1> QED
  BY <1>1, Inductive, PTL

(* A setter or create_execution_profile that raises leaves the driver as it was,    *)
(* but for hostname resolution, in __init__ and after it.                           *)
THEOREM FailuresChangeNothing == ConfigSpec => RaisesChangeNothing
<1> DEFINE Same == outcome' = "raised" =>
                     /\ profile' = profile
                     /\ \A s \in Settings \ Callbacks :
                          conf'[s] = conf[s] \/ (s = "hostname_resolution" /\ conf'[s] = "True")
<1>1. IInv /\ [ConfigNext]_configVars => [Same]_configVars
  <2> SUFFICES ASSUME IInv, ConfigNext, outcome' = "raised"
               PROVE  /\ profile' = profile
                      /\ \A s \in Settings \ Callbacks :
                           conf'[s] = conf[s] \/ (s = "hostname_resolution" /\ conf'[s] = "True")
    OBVIOUS
  <2>1. TypeOK /\ DOMAIN conf = Settings /\ refs \in [Kinds -> Nat]
    BY DEF IInv, TypeOK
  <2>2. CASE CreateCluster
    BY <2>2 DEF CreateCluster
  <2>3. CASE InitStep
    <3>1. PICK out \in Setter(InitOrder[step + 1], Normal(InitOrder[step + 1])) :
            /\ conf' = out.conf
            /\ IF out.ok THEN Leaves(InitOrder[step + 1], Normal(InitOrder[step + 1]), out) ELSE Restores(out)
            /\ outcome' = IF out.ok THEN "returned" ELSE "raised"
      BY <2>1, <2>3, NextSetter
    <3>2. conf' = out.conf /\ Restores(out)
      BY <3>1
    <3>3. profile' = profile
      BY <2>3 DEF InitStep
    <3> QED
      BY <3>2, <3>3 DEF Restores
  <2>4. CASE \E o \in Varied : \E v \in ValuesOf(o) : Call(o, v)
    <3>1. PICK o \in Varied : \E v \in ValuesOf(o) : Call(o, v)
      BY <2>4
    <3>2. PICK v \in ValuesOf(o) : Call(o, v)
      BY <3>1
    <3>3. PICK out \in Setter(o, v) : Called(out)
      BY <3>2 DEF Call
    <3>4. IF out.ok THEN Leaves(o, v, out) ELSE Restores(out)
      BY <2>1, VariedAreOptions, SetterLeaves
    <3>5. conf' = out.conf /\ Restores(out) /\ profile' = profile
      BY <3>3, <3>4 DEF Called
    <3> QED
      BY <3>5 DEF Restores
  <2>5. CASE SetNoSpeculativeExecution
    <3>1. PICK out \in {Returns(With("speculative_execution", "none"), refs)} \cup Refused : Called(out)
      BY <2>5 DEF SetNoSpeculativeExecution
    <3>2. out = Raises(conf, refs)
      BY <3>1, Ends DEF Refused, Called
    <3> QED
      BY <3>1, <3>2, Ends DEF Called
  <2>6. CASE \E given \in Profiles, policy \in ValuesOf("retry_policy") : CreateProfile(given, policy)
    <3>1. PICK given, policy : CreateProfile(given, policy)
      BY <2>6
    <3>2. conf' = conf /\ profile' = profile
      BY <3>1 DEF CreateProfile
    <3> QED
      BY <3>2
  <2>7. CASE Free
    BY <2>7 DEF Free
  <2> QED
    BY <2>2, <2>3, <2>4, <2>5, <2>6, <2>7 DEF ConfigNext
<1> QED
  BY <1>1, Inductive, PTL DEF ConfigSpec, RaisesChangeNothing
===============================================================================
