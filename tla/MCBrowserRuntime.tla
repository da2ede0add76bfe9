--------------------------- MODULE MCBrowserRuntime ---------------------------
\* A write beside a query, beside the session and beside a creation, and every
\* other query.  Two telemetry runtimes of which one may live at a time, under
\* a page without a configuration, with one that cannot be read, and with
\* traces off and on.  Each part alone, and a write beside the composition's
\* own runtime and beside its meter.
EXTENDS BrowserRuntime

MCUses ==
  {<<"write", "get">>, <<"write", "session">>,
   <<"create-service-account", "write">>,
   <<"list", "find-placements">>, <<"session", "get-placements">>}

MCConfigs ==
  {NoConfig, Unreadable} \cup
  {[nodes |-> 1, traces |-> t, ratio |-> 1] : t \in BOOLEAN}

MCTogether ==
  {{p} : p \in Parts} \cup {{"calls", "export"}, {"calls", "meter"}}

MCJointUses == {<<"write", "get">>}
MCJointConfigs == {NoConfig}
=============================================================================
