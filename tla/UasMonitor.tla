----------------------------- MODULE UasMonitor -----------------------------
(* The security monitor of the UAS developer: a table of allow rules, the    *)
(* decision it takes for a proxied request, and the management of the table  *)
(* (shared/security_monitor.py, shared/security_policies.py).  A rule is a   *)
(* triple of sender, topic and action; topics are named by their component.  *)
CONSTANTS
    PolicyAdmin,    \* the sender that may change the rules, "" when there is none
    Managers,       \* senders that try to change the rules
    Rules           \* rules they try to set or to remove

VARIABLE policies

Monitor == "security_monitor"
Gateway == "api_gateway"

\* The workers the gateway reaches through the monitor.
IpcWorkers == {"user_management", "firmware_ingestion", "certification_service",
               "drone_registry", "purchase_service", "audit_log"}

\* Actions of the workers that the gateway may ask for.
GatewayActions ==
    [user_management |-> {"bootstrap_admin", "authenticate", "create_user", "list_users",
                          "enable_user", "disable_user", "delete_user"},
     firmware_ingestion |-> {"submit_firmware"},
     certification_service |-> {"certify_firmware", "list_certificates",
                                "report_critical_vulnerability"},
     drone_registry |-> {"register_drone", "list_registered_drones"},
     purchase_service |-> {"purchase_drone"},
     audit_log |-> {"record_audit"}]

\* full_policy_dicts.
CanonicalRules ==
    UNION {{<<Gateway, t, a>> : a \in GatewayActions[t]} : t \in IpcWorkers}
    \cup {<<s, Monitor, "proxy_request">> :
            s \in {Gateway, "drone_registry", "purchase_service", "certification_service"}}
    \cup {<<"drone_registry", "certification_service", "get_certificate_snapshot">>,
          <<"drone_registry", "firmware_ingestion", "get_firmware_row">>,
          <<"certification_service", "firmware_ingestion", "get_firmware_row">>,
          <<"purchase_service", "drone_registry", "get_drone_purchase_row">>,
          <<"purchase_service", "drone_registry", "update_drone_purchase">>,
          <<"certification_service", "drone_registry", "apply_firmware_cert_decision">>,
          <<"audit_log", "analytics_adapter", "send_analytics">>}
    \cup {<<s, "audit_log", "record_audit">> : s \in IpcWorkers \ {"audit_log"}}
    \cup {<<Monitor, t, "ipc_inbound_request">> : t \in IpcWorkers}
    \cup {<<t, Monitor, "ipc_response">> : t \in IpcWorkers}
    \cup {<<Monitor, Gateway, "ipc_response">>}

\* _is_allowed: the rule itself, or one with a star for topic or action.
IsAllowed(sender, topic, action) ==
    \E p \in policies : /\ p[1] = sender
                        /\ p[2] \in {"*", topic}
                        /\ p[3] \in {"*", action}

\* The two checks of _handle_proxy_request.
MayForward(sender, topic, action) ==
    /\ IsAllowed(sender, topic, action)
    /\ IsAllowed(Monitor, topic, "ipc_inbound_request")

CanManagePolicies(sender) == PolicyAdmin # "" /\ sender = PolicyAdmin
-----------------------------------------------------------------------------
MonitorInit == policies = CanonicalRules

SetPolicy(sender, rule) ==
    /\ CanManagePolicies(sender)
    /\ policies' = policies \cup {rule}

RemovePolicy(sender, rule) ==
    /\ CanManagePolicies(sender)
    /\ policies' = policies \ {rule}

ClearPolicies(sender) ==
    /\ CanManagePolicies(sender)
    /\ policies' = {}

ManagePolicies ==
    \E s \in Managers : \/ \E p \in Rules : SetPolicy(s, p) \/ RemovePolicy(s, p)
                        \/ ClearPolicies(s)
=============================================================================
