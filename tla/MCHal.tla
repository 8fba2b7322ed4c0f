-------------------------------- MODULE MCHal --------------------------------
(* Small rings, a tick and a watchdog counter that wrap, and the services  *)
(* of the HAL one or two at a time.                                        *)
EXTENDS HalProperties

MCTemperatures == {0, 50, 51}
MCServiceSets == {{"sensor", "voting"}, {"bus"}, {"watchdog"}, {"aging"},
                  {"voting", "errors"}}
=============================================================================
