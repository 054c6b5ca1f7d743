--------------------------- MODULE MCMqttClient ---------------------------
(***************************************************************************)
(* An instance of MqttClient for TLC: a filter without wildcards, which    *)
(* the broker refuses, one that ends in # and one with +.  The name of cmd *)
(* is below the #; that of toggle is its parent level and passes the +.    *)
(***************************************************************************)
EXTENDS MqttClient, TLC

CONSTANTS cmd, toggle, state, alarm, scene, hello

self == << <<"c">>, <<"a", "b">> >>
hass == << <<"h">>, <<"#">> >>
group == << <<"+">> >>

MCTopics == {self, hass, group}
MCRefused == {self}
MCTopicOf == [m \in Inbound |->
                IF m = cmd THEN << <<"h">>, <<"a">>, <<"b">> >> ELSE << <<"h">> >>]
MCQosOf == [m \in Inbound \cup Outbound |->
              CASE m = hello -> 0
                [] m \in {cmd, state, alarm} -> 1
                [] OTHER -> 2]
MCSymmetry == Permutations({state, alarm})
MCWords == {<<"a">>, <<"b">>, <<"a", "b">>}
============================================================================
