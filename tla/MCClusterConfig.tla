--------------------------- MODULE MCClusterConfig ---------------------------
(* ClusterConfig for TLC: the options whose setters meet another's setting, or    *)
(* make an object of the driver.                                                  *)
EXTENDS ClusterConfig

MCVaried == {"hostname_resolution", "ssl", "credentials", "dse_gssapi", "dse_gssapi_proxy", "dse_plaintext",
             "constant_reconnect", "exponential_reconnect", "round_robin", "dc_aware", "rack_aware",
             "timestamp_gen", "retry_policy", "host_listener"}

(* Profiles without options, with one option of each kind, and with two that meet. *)
MCProfiles == {{}, {"request_timeout"}, {"round_robin", "dc_aware"}, {"latency_settings"}, {"speculative_execution"},
               {"retry_policy"}, {"retry_policy", "speculative_execution"}, {"retry_policy", "whitelist_dc"}}
===============================================================================
