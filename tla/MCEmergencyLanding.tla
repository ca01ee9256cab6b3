------------------------- MODULE MCEmergencyLanding -------------------------
EXTENDS EmergencyLanding

\* The rules the flows of the agrodron need; test_emergency.py has the last
\* three, which the emergency set repeats.
MCNormal == {Rule("autopilot", "motors", "set_target"),
             Rule("autopilot", "sprayer", "set_spray"),
             Rule("autopilot", "navigation", "get_state"),
             Rule("motors", "sitl", "__raw__"),
             Rule("limiter", "emergensy", "limiter_event"),
             Rule("emergensy", "motors", "land"),
             Rule("emergensy", "sprayer", "set_spray")}

MCGrants == {Rule("autopilot", "motors", "set_target")}
=============================================================================
