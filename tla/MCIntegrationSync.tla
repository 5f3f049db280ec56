------------------------- MODULE MCIntegrationSync -------------------------
(* The settings a connect of IntegrationSync comes with, and the kinds of    *)
(* operation that meet in one behaviour.                                     *)
EXTENDS IntegrationSync

MCGiven == {Keys \ {EventsKey, MetadataKey}}

MCMixes ==
    {{"connect", "disconnect", "pass", "tick"},
     {"connect", "test", "refresh", "pass"},
     {"connect", "disconnect", "settings", "register", "events"},
     {"connect", "disconnect", "register", "refresh"}}
=============================================================================
