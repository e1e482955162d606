---------------------------- MODULE ClusterConfig ----------------------------
(* How the arguments of acsylla.create_cluster become the configuration of the    *)
(* driver: factories.py normalises them, Cluster.__init__ calls one setter after  *)
(* the other, any of which may raise, and several setters write the same setting  *)
(* of the driver, so that their order decides.  The program may go on with        *)
(* setters, and make execution profiles.                                          *)
EXTENDS Python, Naturals, Sequences, FiniteSets

CONSTANTS
  Unset,     \* a setting the driver was never told about
  Varied,    \* the options given beside any other, and set again after __init__
  Profiles,  \* the sets of options execution profiles are made with
  MaxCalls   \* at most this many calls after __init__

ASSUME MaxCallsIsNat == MaxCalls \in Nat
(* They are no number, and none of the words arguments and settings are compared to. *)
ASSUME NoneIsNoValue ==
  /\ None # Unset /\ {None, Unset} \cap Nat = {}
  /\ {None, Unset} \cap {"both", "one", "server_side", "monotonic", "wrong", "PEER_IDENTITY_DNS", "dse_gssapi",
                         "dse_gssapi_proxy", "dc_aware", "rack_aware"} = {}

VARIABLES
  args,     \* the arguments of create_cluster
  status,   \* "new", then "init" while __init__ runs; "ready", "raised", "freed"
  step,     \* setters __init__ has called
  conf,     \* the settings the driver holds
  refs,     \* driver objects this code has made and not freed, by kind
  profile,  \* the execution profile registered with the driver, or Unset
  calls,    \* calls made after __init__
  outcome   \* how the latest call ended: "returned" or "raised"

configVars == <<args, status, step, conf, refs, profile, calls, outcome>>

--------------------------------------------------------------------------------
(* Arguments.  Those of one setter are one option here.                           *)

(* Setters that hand a value that is not None to the driver, and do nothing else: *)
(* some raise what the driver answers, others are given no answer.                *)
EndpointOptions == {"contact_points", "port", "local_address"}
ProtocolOptions == {"protocol_version", "use_beta_protocol_version", "consistency", "serial_consistency"}
IoOptions       == {"num_threads_io", "queue_size_io", "core_connections_per_host"}
PacingOptions   == {"coalesce_delay", "new_request_ratio"}
WriteOptions    == {"max_reusable_write_objects", "prepare_on_all_hosts", "no_compact"}
NameOptions     == {"hostname_resolution", "randomized_contact_points"}
SchemaOptions   == {"use_schema"}
TimeoutOptions  == {"connect_timeout", "request_timeout", "resolve_timeout"}
WaitOptions     == {"max_schema_wait_time", "tracing_max_wait_time", "tracing_retry_wait_time", "tracing_consistency"}
RoutingOptions  == {"token_aware_routing", "shuffle_replicas", "latency_aware_routing", "latency_settings"}
FilterOptions   == {"whitelist_dc", "blacklist_dc", "whitelist_hosts", "blacklist_hosts"}
TcpOptions      == {"tcp_nodelay", "tcp_keepalive"}
HeartOptions    == {"heartbeat_interval", "idle_timeout"}
LabelOptions    == {"application_name", "application_version", "client_id", "monitor_reporting_interval"}

Checked == EndpointOptions \cup ProtocolOptions \cup IoOptions \cup PacingOptions \cup WriteOptions
             \cup NameOptions \cup {"client_id", "speculative_execution", "cloud_bundle"}
Plain   == Checked \cup TimeoutOptions \cup WaitOptions \cup RoutingOptions \cup FilterOptions
             \cup TcpOptions \cup HeartOptions \cup LabelOptions \cup SchemaOptions

GssapiOptions    == {"dse_gssapi", "dse_gssapi_proxy"}
PlaintextOptions == {"dse_plaintext", "dse_plaintext_proxy"}
ReconnectOptions == {"constant_reconnect", "exponential_reconnect"}
BalanceOptions   == {"round_robin", "dc_aware", "rack_aware"}
Options == Plain \cup GssapiOptions \cup PlaintextOptions \cup ReconnectOptions \cup BalanceOptions
             \cup {"local_port_range", "log_level", "logging_callback", "credentials",
                   "ssl", "timestamp_gen", "retry_policy", "host_listener"}

(* The settings of the driver (the log level is that of the whole process), and   *)
(* the two callbacks, which stay in Python.                                       *)
Callbacks == {"logging_callback", "listener_callback"}
Settings  == Plain \cup Callbacks \cup {"auth", "reconnect", "load_balance", "local_port_range",
                "log_level", "ssl", "timestamp_gen", "retry_policy", "host_listener"}

(* Defaults of create_cluster.  Times are microseconds there.                     *)
NoneByDefault == (EndpointOptions \ {"port"}) \cup FilterOptions \cup GssapiOptions \cup PlaintextOptions
                   \cup {"protocol_version", "constant_reconnect", "dc_aware", "rack_aware", "latency_settings",
                         "tcp_keepalive", "timestamp_gen", "retry_policy", "speculative_execution", "logging_callback",
                         "max_reusable_write_objects", "host_listener", "client_id", "cloud_bundle", "credentials"}
DefaultArg(o) ==
  CASE o \in NoneByDefault  -> None
    [] o = "ssl"            -> "disabled"
    [] o = "connect_timeout" -> 5000000
    [] o = "request_timeout" -> 12000000
    [] o = "resolve_timeout" -> 2000000
    [] o \in {"round_robin", "hostname_resolution"} -> "False"
    [] OTHER                -> "default"

(* Values a program can pass; "wrong" is one that is not understood.              *)
ValuesOf(o) == {DefaultArg(o)} \cup
  CASE o \in TimeoutOptions -> {None, 1999}
    [] o = "hostname_resolution" -> {None, "True"}
    [] o = "round_robin"   -> {"True"}
    [] o = "ssl"           -> {"PEER_CERT", "PEER_IDENTITY_DNS", "wrong"}
    [] o = "credentials"   -> {"both", "one"}
    [] o = "timestamp_gen" -> {"server_side", "monotonic", "wrong"}
    [] o = "retry_policy"  -> {"default", "fallthrough", "default logged", "wrong"}
    [] o \in ProtocolOptions \cup {"tracing_consistency", "client_id", "log_level"} -> {None, "given", "wrong"}
    [] OTHER               -> {None, "given"}

(* create_cluster looks protocol version, consistencies and SSL flags up by name. *)
LookedUp == {"protocol_version", "consistency", "serial_consistency", "tracing_consistency", "ssl"}
Normal(o) == IF o \in TimeoutOptions /\ args[o] # None THEN args[o] \div 1000 ELSE args[o]

InitOrder == <<
  "contact_points", "port", "local_address", "local_port_range", "log_level", "logging_callback",
  "protocol_version", "use_beta_protocol_version", "connect_timeout", "request_timeout", "resolve_timeout",
  "credentials", "consistency", "serial_consistency", "hostname_resolution", "ssl", "num_threads_io",
  "queue_size_io", "core_connections_per_host", "constant_reconnect", "exponential_reconnect",
  "coalesce_delay", "new_request_ratio", "max_schema_wait_time", "tracing_max_wait_time",
  "tracing_retry_wait_time", "tracing_consistency", "round_robin", "dc_aware", "rack_aware",
  "token_aware_routing", "shuffle_replicas", "latency_aware_routing", "latency_settings",
  "application_name", "application_version", "whitelist_dc", "blacklist_dc", "whitelist_hosts",
  "blacklist_hosts", "tcp_nodelay", "tcp_keepalive", "timestamp_gen", "heartbeat_interval", "idle_timeout",
  "retry_policy", "use_schema", "randomized_contact_points", "speculative_execution",
  "max_reusable_write_objects", "prepare_on_all_hosts", "no_compact", "host_listener", "client_id",
  "monitor_reporting_interval", "cloud_bundle", "dse_gssapi", "dse_gssapi_proxy", "dse_plaintext",
  "dse_plaintext_proxy" >>

ASSUME VariedAreOptions == Varied \subseteq Options

--------------------------------------------------------------------------------
(* Setters.  SetX(v) is the set of ways the setter can end: whether it returns,   *)
(* and what it leaves in conf and refs.  "Checked" calls may be refused.          *)
Kinds == {"cluster", "ssl", "timestamp_gen", "retry_policy", "profile"}

Returns(c, r) == [ok |-> TRUE, conf |-> c, refs |-> r]
Raises(c, r)  == [ok |-> FALSE, conf |-> c, refs |-> r]
Nothing == {Returns(conf, refs)}
Refused == {Raises(conf, refs)}
With(s, v) == [conf EXCEPT ![s] = v]
Made(k, n) == [refs EXCEPT ![k] = @ + n]

SetPlain(o, v) ==
  IF v = None THEN Nothing
  ELSE (IF o \in TimeoutOptions \/ v # "wrong" THEN {Returns(With(o, v), refs)} ELSE {})
         \cup (IF o \in Checked THEN Refused ELSE {})

SetLocalPortRange(v) ==
  IF v = None THEN Nothing
  ELSE {Returns(With("local_port_range", IF v = "default" THEN "random part" ELSE v), refs)} \cup Refused

SetCredentials(v) ==
  CASE v = "both" -> {Returns(With("auth", "credentials"), refs)}
    [] v = "one"  -> Refused
    [] v = None   -> Nothing

SetLogging(o, v) ==
  CASE o = "log_level" /\ v = None    -> Nothing
    [] o = "log_level" /\ v = "wrong" -> Refused
    [] OTHER -> {Returns(With(o, v), refs)}

(* Mutant: the driver is given the CassSsl before its certificates are loaded.    *)
SetSsl_Early(v) ==
  IF v = "disabled" THEN Nothing
  ELSE {Returns(With("ssl", v), Made("ssl", 1)), Raises(With("ssl", v), Made("ssl", 1))}

(* Certificates and keys may be refused before the driver is given the CassSsl,   *)
(* which stays in self.ssl; an earlier one there is not freed.                    *)
SetSsl(v) ==
  IF v = "disabled" THEN Nothing
  ELSE LET named == IF v = "PEER_IDENTITY_DNS" THEN With("hostname_resolution", "True") ELSE conf
       IN  {Returns([named EXCEPT !["ssl"] = v], Made("ssl", 1)), Raises(conf, Made("ssl", 1))}

SetReconnect(o, v) ==
  IF v = None THEN Nothing
  ELSE {Returns(With("reconnect", o), refs)} \cup (IF o = "exponential_reconnect" THEN Refused ELSE {})

(* Mutant: a policy is set only if there is none yet.                             *)
SetBalance_FirstWins(o, v) ==
  CASE conf["load_balance"] # Unset -> Nothing
    [] o = "round_robin" /\ v # "True" -> {Returns(With("load_balance", o), refs)}
    [] o # "round_robin" /\ v # None   -> {Returns(With("load_balance", o), refs)} \cup Refused
    [] OTHER -> Nothing

SetBalance(o, v) ==
  CASE o = "round_robin" /\ v # "True" -> {Returns(With("load_balance", o), refs)}
    [] o # "round_robin" /\ v # None   -> {Returns(With("load_balance", o), refs)} \cup Refused
    [] OTHER -> Nothing

(* The generator is not freed, and server_side falls through to the ValueError.   *)
SetTimestampGen(v) ==
  CASE v = "monotonic"   -> {Returns(With("timestamp_gen", v), Made("timestamp_gen", 1))}
    [] v = "server_side" -> {Raises(conf, Made("timestamp_gen", 1))}
    [] v = "wrong"       -> Refused
    [] v = None          -> Nothing

(* Mutant: the policy that the logging one wraps is not freed.                    *)
SetRetryPolicy_KeepsInner(v) ==
  CASE v = None    -> Nothing
    [] v = "wrong" -> Refused
    [] OTHER       -> {Returns(With("retry_policy", v), Made("retry_policy", IF v = "default logged" THEN 1 ELSE 0))}

(* The driver keeps a reference of its own to the policy it is given.             *)
SetRetryPolicy(v) ==
  LET made  == IF v = "default logged" THEN 2 ELSE 1
      freed == (IF v = "default logged" THEN 1 ELSE 0) + 1
  IN  CASE v = None    -> Nothing
        [] v = "wrong" -> Refused
        [] OTHER       -> {Returns(With("retry_policy", v), Made("retry_policy", made - freed))}

(* Once there is a listener only its callback changes, also if the driver refused *)
(* the listener.                                                                  *)
SetHostListener(v) ==
  LET called == With("listener_callback", v)
  IN  CASE conf["listener_callback"] # Unset -> {Returns(called, refs)}
        [] conf["listener_callback"] = Unset /\ v = None -> Nothing
        [] OTHER -> {Returns([called EXCEPT !["host_listener"] = "registered"], refs), Raises(called, refs)}

(* Mutant: hostname resolution is left as it is.                                  *)
SetGssapi_NoNames(o, v) ==
  IF v = None THEN Nothing ELSE {Returns(With("auth", o), refs)} \cup Refused

(* Kerberos needs names: resolution is switched on first.                         *)
SetGssapi(o, v) ==
  LET named == With("hostname_resolution", "True")
  IN  IF v = None THEN Nothing
      ELSE {Returns([named EXCEPT !["auth"] = o], refs), Raises(named, refs)} \cup Refused

SetPlaintext(o, v) ==
  IF v = None THEN Nothing ELSE {Returns(With("auth", o), refs)} \cup Refused

(* __init__ encodes the strings, and the setter cannot encode bytes again: a      *)
(* plaintext authenticator among the arguments always raises.                     *)
InitPlaintext(v) == IF v = None THEN Nothing ELSE Refused

Setter(o, v) ==
  CASE o \in Plain                -> SetPlain(o, v)
    [] o = "local_port_range"     -> SetLocalPortRange(v)
    [] o = "credentials"          -> SetCredentials(v)
    [] o \in {"log_level", "logging_callback"} -> SetLogging(o, v)
    [] o = "ssl"                  -> SetSsl(v)
    [] o \in ReconnectOptions     -> SetReconnect(o, v)
    [] o \in BalanceOptions       -> SetBalance(o, v)
    [] o = "timestamp_gen"        -> SetTimestampGen(v)
    [] o = "retry_policy"         -> SetRetryPolicy(v)
    [] o = "host_listener"        -> SetHostListener(v)
    [] o \in GssapiOptions        -> SetGssapi(o, v)
    [] o \in PlaintextOptions     -> SetPlaintext(o, v)

--------------------------------------------------------------------------------
(* Nothing of the Cluster is made or set yet.                                     *)
NothingDone ==
  /\ status = "new" /\ step = 0 /\ calls = 0 /\ outcome = "returned"
  /\ conf = [s \in Settings |-> Unset] /\ profile = Unset
  /\ refs = [k \in Kinds |-> 0]

(* Two arguments differ from their defaults: any one, and one of Varied.          *)
ConfigInit ==
  /\ \E o1 \in Options, o2 \in Varied : \E v1 \in ValuesOf(o1), v2 \in ValuesOf(o2) :
       args = [[[o \in Options |-> DefaultArg(o)] EXCEPT ![o1] = v1] EXCEPT ![o2] = v2]
  /\ NothingDone

(* create_cluster and the first line of Cluster.__init__                          *)
CreateCluster ==
  /\ status = "new"
  /\ IF \E o \in LookedUp : args[o] = "wrong"
     THEN status' = "raised" /\ outcome' = "raised" /\ UNCHANGED refs
     ELSE status' = "init" /\ refs' = Made("cluster", 1) /\ UNCHANGED outcome
  /\ UNCHANGED <<args, step, conf, profile, calls>>

(* Cluster.__init__, one setter                                                   *)
InitStep ==
  /\ status = "init"
  /\ step' = step + 1
  /\ \E out \in LET o == InitOrder[step'] IN
                   IF o \in PlaintextOptions THEN InitPlaintext(args[o]) ELSE Setter(o, Normal(o)) :
       /\ conf' = out.conf /\ refs' = out.refs
       /\ outcome' = IF out.ok THEN "returned" ELSE "raised"
       /\ status' = CASE ~out.ok -> "raised"
                      [] out.ok /\ step' = Len(InitOrder) -> "ready"
                      [] OTHER -> status
  /\ UNCHANGED <<args, profile, calls>>

(* The program calls a setter.  Setters take enumerations by value.               *)
Called(out) ==
  /\ status = "ready" /\ calls < MaxCalls
  /\ conf' = out.conf /\ refs' = out.refs
  /\ outcome' = IF out.ok THEN "returned" ELSE "raised"
  /\ calls' = calls + 1
  /\ UNCHANGED <<args, status, step, profile>>

Call(o, v) ==
  /\ o \in LookedUp => v # "wrong"
  /\ \E out \in Setter(o, v) : Called(out)

SetNoSpeculativeExecution ==
  \E out \in {Returns(With("speculative_execution", "none"), refs)} \cup Refused : Called(out)

(* Cluster.create_execution_profile.  A "wrong" retry policy raises by itself; the *)
(* driver may refuse any option, and the profile when it is registered.  After     *)
(* latency_settings the code reads an error nobody may have assigned: that raise   *)
(* is among the refusals.  Who raises frees nothing.                               *)
ProfileOptions == {"request_timeout", "consistency", "serial_consistency", "round_robin", "dc_aware",
                   "token_aware_routing", "shuffle_replicas", "latency_settings", "retry_policy",
                   "speculative_execution"} \cup FilterOptions

ASSUME ProfilesHaveOptions == \A given \in Profiles : given \subseteq ProfileOptions

(* Given both, the second of two policies replaces the first.                      *)
InProfile(given) == IF "dc_aware" \in given THEN given \ {"round_robin"} ELSE given

CreateProfile(given, policy) ==
  /\ status = "ready" /\ calls < MaxCalls
  /\ "retry_policy" \in given <=> policy # None
  /\ \/ /\ policy # "wrong"
        /\ profile' = InProfile(given) /\ outcome' = "returned"
        /\ UNCHANGED refs
     \/ /\ outcome' = "raised"
        /\ \E refused \in (given \ {"retry_policy"}) \cup {"registration"} :
             /\ refused \in {"speculative_execution", "registration"} => policy # "wrong"
             /\ refs' = Made("profile", 1)
        /\ UNCHANGED profile
     \/ /\ policy # None /\ outcome' = "raised"
        /\ LET made == CASE policy = "wrong" -> 0 [] policy = "default logged" -> 2 [] OTHER -> 1
           IN  refs' = [Made("profile", 1) EXCEPT !["retry_policy"] = @ + made]
        /\ UNCHANGED profile
  /\ calls' = calls + 1
  /\ UNCHANGED <<args, status, step, conf>>

(* Cluster.__dealloc__, after destroy() (a Cluster whose __init__ raised stays a   *)
(* reader of the loop and is never deallocated)                                    *)
Free ==
  /\ status = "ready"
  /\ status' = "freed" /\ outcome' = "returned"
  /\ refs' = [refs EXCEPT !["cluster"] = @ - 1, !["ssl"] = IF @ > 0 THEN @ - 1 ELSE @]
  /\ UNCHANGED <<args, step, conf, profile, calls>>

ConfigNext ==
  \/ CreateCluster
  \/ InitStep
  \/ \E o \in Varied : \E v \in ValuesOf(o) : Call(o, v)
  \/ SetNoSpeculativeExecution
  \/ \E given \in Profiles, policy \in ValuesOf("retry_policy") : CreateProfile(given, policy)
  \/ Free

ConfigSpec == ConfigInit /\ [][ConfigNext]_configVars

--------------------------------------------------------------------------------
(* Properties.                                                                     *)

(* What the documentation has each argument ask for (src/README.md:172-580) is what *)
(* the driver holds when __init__ returns; an option that is None asks for nothing, *)
(* and leaves nothing behind.  Of a DC and a rack to be aware of, the rack is in    *)
(* force, and of the authenticators the one that is set last.  Which of two         *)
(* reconnection policies is, and what round_robin asks for, is PoliciesAsAsked.     *)
InForce ==
  status = "ready" /\ calls = 0 =>
    /\ \A o \in Plain \ {"hostname_resolution"} : conf[o] = IF args[o] = None THEN Unset ELSE Normal(o)
    /\ \A o \in ReconnectOptions :
         args[o] # None /\ (\A other \in ReconnectOptions \ {o} : args[other] = None) => conf["reconnect"] = o
    /\ conf["reconnect"] # Unset => args[conf["reconnect"]] # None
    /\ args["rack_aware"] # None => conf["load_balance"] = "rack_aware"
    /\ args["rack_aware"] = None /\ args["dc_aware"] # None => conf["load_balance"] = "dc_aware"
    /\ conf["load_balance"] \in BalanceOptions \ {"round_robin"} => args[conf["load_balance"]] # None
    /\ args["ssl"] # "disabled" => conf["ssl"] = args["ssl"]
    /\ conf["auth"] = CASE args["dse_gssapi_proxy"] # None -> "dse_gssapi_proxy"
                        [] args["dse_gssapi_proxy"] = None /\ args["dse_gssapi"] # None -> "dse_gssapi"
                        [] OTHER -> IF args["credentials"] = "both" THEN "credentials" ELSE Unset

(* A program that asks for constant reconnects, and says nothing of exponential     *)
(* ones, gets them: "Configures the cluster to use a reconnection policy that waits *)
(* a constant time between each reconnection attempt" (src/README.md:280).  One     *)
(* that asks for round robin, and for no DC or rack, gets it: "Configures the       *)
(* cluster to use round-robin load balancing" (331).  Asked for together, neither   *)
(* is in force.                                                                     *)
PoliciesAsAsked ==
  /\ status = "ready" /\ calls = 0
  /\ args["constant_reconnect"] # None /\ args["exponential_reconnect"] = DefaultArg("exponential_reconnect")
  /\ args["round_robin"] = "True" /\ args["dc_aware"] = None /\ args["rack_aware"] = None
  => conf["reconnect"] = "constant_reconnect" /\ conf["load_balance"] = "round_robin"

(* Whoever checks identities by name has the names: with PEER_IDENTITY_DNS or       *)
(* Kerberos, hostname resolution is on when __init__ returns, whatever the argument *)
(* hostname_resolution says, which is applied on the way and stands otherwise.      *)
NamesForIdentity ==
  status = "ready" /\ calls = 0 =>
    conf["hostname_resolution"] =
      IF conf["ssl"] = "PEER_IDENTITY_DNS" \/ conf["auth"] \in GssapiOptions THEN "True"
      ELSE IF args["hostname_resolution"] = None THEN Unset ELSE args["hostname_resolution"]

(* A call that raises leaves the driver as it was: no half of an SSL context, no    *)
(* profile.  All it may have done is to switch hostname resolution on.              *)
RaisesChangeNothing ==
  [][outcome' = "raised" =>
       /\ profile' = profile
       /\ \A s \in Settings \ Callbacks :
            conf'[s] = conf[s] \/ (s = "hostname_resolution" /\ conf'[s] = "True")]_configVars

(* Driver objects are freed once.  When the Cluster has been deallocated, what is   *)
(* left was made by a call after __init__, or is the timestamp generator, which is  *)
(* never freed.                                                                     *)
ObjectsGivenBack ==
  /\ \A k \in Kinds : refs[k] \in Nat
  /\ status = "freed" => /\ refs["cluster"] = 0
                         /\ refs["ssl"] + refs["profile"] <= calls
                         /\ refs["retry_policy"] > 0 => refs["profile"] > 0
                         /\ refs["timestamp_gen"] <= calls + (IF args["timestamp_gen"] = "monotonic" THEN 1 ELSE 0)

===============================================================================
