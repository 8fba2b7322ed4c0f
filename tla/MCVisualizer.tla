---------------------------- MODULE MCVisualizer ----------------------------
(* Good documents of one to four ticks, one that lacks a key, and one for  *)
(* each reason to refuse a document; frames with one or two events.        *)
EXTENDS VisualizerProperties

MCTick(n, temp, oil, rpm, mode) ==
  [tick |-> n, rpm |-> rpm, temp |-> temp, oil |-> oil, run |-> 1,
   result |-> "OK", control |-> 50000, engine_mode |-> mode]

MCScenario(ticks) ==
  [scenario |-> "name", requirement_id |-> "REQ", expected |-> "OK", ticks |-> ticks]

MCDocument(parts) ==
  [fault |-> "none", schema_version |-> "1.0.0", software_version |-> "1.4.4",
   brackets |-> TRUE, scenarios |-> parts]

MCFour == <<MCTick(0, 840, 340, 3400, "RUNNING"), MCTick(1, 850, 300, 3500, "RUNNING"),
            MCTick(3, 950, 250, 3600, "WARNING"), MCTick(4, 960, 240, 0, "SHUTDOWN")>>
MCOne == SubSeq(MCFour, 1, 1)
MCTwo == SubSeq(MCFour, 2, 3)
MCThree == SubSeq(MCFour, 1, 3)

MCGood == MCDocument(<<MCScenario(MCFour)>>)

MCDocuments ==
  { MCGood,
    MCDocument(<<MCScenario(MCOne), MCScenario(MCTwo)>>),
    MCDocument(<<MCScenario([MCThree EXCEPT ![2].temp = Missing])>>) } \cup
  {[MCGood EXCEPT !.fault = f] : f \in LoadFaults \ {"none"}} \cup
  { [MCGood EXCEPT !.schema_version = "2.0"],
    [MCGood EXCEPT !.software_version = ""],
    [MCGood EXCEPT !.brackets = FALSE] } \cup
  {MCDocument(parts) : parts \in
     { << >>, <<MCScenario(<< >>)>>,
       <<MCScenario(MCOne), MCScenario(MCOne), MCScenario(MCOne)>>,
       <<[MCScenario(MCOne) EXCEPT !.expected = Malformed]>>,
       <<MCScenario(MCFour \o <<MCTick(9, 0, 0, 0, "INIT")>>)>>,
       <<MCScenario(MCOne \o MCOne)>>,
       <<MCScenario([MCTwo EXCEPT ![2].run = Missing])>>,
       <<MCScenario([MCTwo EXCEPT ![2].rpm = 10001])>>,
       <<MCScenario([MCTwo EXCEPT ![1].control = Malformed])>> }}

MCThemes == <<"default", "light">>

-----------------------------------------------------------------------------
MCNothing == [pressed |-> {}, down |-> {}, button |-> "none",
              pointer |-> [x |-> 0, y |-> 0], screen |-> [w |-> 1280, h |-> 720],
              time |-> 1]

MCPress(keys) == [MCNothing EXCEPT !.pressed = keys, !.down = keys \cap {"LEFT", "RIGHT"}]
MCHold(key, keys) == [MCPress(keys) EXCEPT !.down = @ \cup {key}]
MCMouse(button, x, y) == [MCNothing EXCEPT !.button = button, !.pointer = [x |-> x, y |-> y]]

MCPairs == { {"ESCAPE", "RIGHT"}, {"LEFT", "ENTER"}, {"LEFT", "RIGHT"}, {"TAB", "R"},
             {"TAB", "RIGHT"}, {"SPACE", "UP"}, {"UP", "DOWN"} }

MCInputs ==
  {MCNothing} \cup {MCPress({k}) : k \in Keys} \cup {MCPress(pair) : pair \in MCPairs} \cup
  {MCHold(k, keys) : k \in {"LEFT", "RIGHT"}, keys \in {{}, {"SPACE"}, {"TAB"}}} \cup
  {MCMouse(b, x, 680) : b \in {"none", "pressed", "released"}, x \in {0, 600, 1279}} \cup
  {[MCMouse("pressed", 400, 575) EXCEPT !.screen = [w |-> 800, h |-> 600]],
   [MCMouse("pressed", 600, 680) EXCEPT !.pressed = {"TAB"}]}
=============================================================================
