-------------------------- MODULE MCConfigRuntime --------------------------
(* ConfigRuntime with a few pin requests; the rest is in the cfg files. *)
EXTENDS ConfigRuntime

\* Lists the host writes to page 3: none, an ordinary one, one with two
\* functions on one timer channel, one off a fixed path.
MCPinRequests ==
    { << >>,
      <<Request("BoostControl", "PB1"), Request("CrankInput", "PA0")>>,
      <<Request("BoostControl", "PC8"), Request("IdleControl", "PB0")>>,
      <<Request("CrankInput", "PA1")>> }

\* Overrides: a swap, onto the other pin of a channel, onto a taken channel,
\* onto a pin of another class, onto a reserved pin.
MCPinOverrides ==
    { <<Request("BoostControl", "PB1"), Request("IdleControl", "PB0")>>,
      <<Request("BoostControl", "PC8")>>,
      <<Request("IdleControl", "PC8")>>,
      <<Request("MapSensor", "PB0")>>,
      <<Request("MapSensor", "PA11")>> }

MCFewRequests == { << >> }
MCFewOverrides == { <<Request("BoostControl", "PC8")>> }
============================================================================
