---------------------------- MODULE TopicMatch ----------------------------
(***************************************************************************)
(* Which handler a message goes to: the test in deliverMessage and the     *)
(* walk of isTopicMatched (MQTTClient.c) along a filter and a topic name,  *)
(* against the meaning of filters for the broker.  Filters and names are   *)
(* sequences of levels, levels are sequences of characters.                *)
(*                                                                         *)
(* "assume topic filter and name is in correct format": levels are not     *)
(* empty, + is a whole level, # is the last one.                           *)
(***************************************************************************)
EXTENDS Naturals, Sequences, SequencesExt

LOCAL Chars(levels) ==
    FlattenSeq([i \in DOMAIN levels |-> IF i = 1 THEN levels[i] ELSE <<"/">> \o levels[i]])

(* Fault: + takes a single character.                                      *)
SkipOne(N, c) == c

(* + goes to the last character of the level.                              *)
SkipLevel(N, c) ==
    CHOOSE k \in c .. Len(N) :
        /\ \A i \in c + 1 .. k : N[i] # "/"
        /\ k = Len(N) \/ N[k + 1] = "/"

(* The loop, one pass at positions p of the filter and the name.           *)
isTopicMatched(F, N) ==
    LET Stops(f, n) ==
          \/ N[n] = "/" /\ F[f] # "/"
          \/ F[f] \notin {"+", "#", N[n]}
        Reached(f, n) ==
          CASE F[f] = "+" -> SkipLevel(N, n)
            [] F[f] = "#" -> Len(N)
            [] OTHER -> n
        from[p \in (1 .. Len(F) + 1) \X (1 .. Len(N) + 1)] ==
          LET f == p[1]
              n == p[2] IN
          IF f <= Len(F) /\ n <= Len(N) /\ ~Stops(f, n)
            THEN from[<<f + 1, Reached(f, n) + 1>>]
            ELSE n > Len(N) /\ f > Len(F)
    IN  from[<<1, 1>>]

(* deliverMessage: MQTTPacket_equals or isTopicMatched.                    *)
Delivered(filter, name) ==
    \/ Chars(filter) = Chars(name)
    \/ isTopicMatched(Chars(filter), Chars(name))

(* Filter and name agree on the levels 1 .. n.                             *)
LOCAL SameUpTo(filter, name, n) == \A i \in 1 .. n : filter[i] \in {<<"+">>, name[i]}

(* What a filter means in MQTT 3.1.1 for a name that does not start with $:*)
(* + stands for one level, # for any number of levels, none included.      *)
Matches(filter, name) ==
    LET k == Len(filter) IN
    IF filter[k] = <<"#">>
      THEN Len(name) >= k - 1 /\ SameUpTo(filter, name, k - 1)
      ELSE Len(name) = k /\ SameUpTo(filter, name, k)

(* The # of the filter stands for no level: a/# and the name a.            *)
AtParent(filter, name) == Len(name) < Len(filter) /\ Matches(filter, name)
============================================================================
