---------------------------- MODULE MCMqttTopic ----------------------------
(* Every pair of a filter and a name of at most MaxLen characters, grown   *)
(* one character at a time, so that TLC evaluates the properties of the    *)
(* topic algorithms on all of them.  Filters alone, for the check, grow to *)
(* one character more, past CONFIG_MQTT_TOPIC_MAXLEN.                      *)
EXTENDS MqttTopic

CONSTANT MaxLen         \* the longest string that is tried

MCLetters == {"a", "b"}
MCUnprintable == {"tab"}

VARIABLES filter, name
topicVars == <<filter, name>>

TopicInit == filter = <<"/">> /\ name = <<"/">>

GrowFilter ==
    /\ Len(filter) < (IF name = <<"/">> THEN MaxLen + 1 ELSE MaxLen)
    /\ \E c \in Char : filter' = Append(filter, c)
    /\ UNCHANGED name

GrowName ==
    /\ Len(name) < MaxLen /\ Len(filter) <= MaxLen
    /\ \E c \in Char \ ({"#"} \cup Unprintable) : name' = Append(name, c)
    /\ UNCHANGED filter

TopicNext == GrowFilter \/ GrowName
TopicSpec == TopicInit /\ [][TopicNext]_topicVars

-----------------------------------------------------------------------------
(* The pointer walk of iotx_mc_is_topic_matched decides exactly what the   *)
(* level-by-level definition says, for every filter and name the client    *)
(* lets through.                                                           *)
MatchIsByLevels ==
    (WellFormedFilter(filter) /\ WellFormedName(name)) =>
        (DeliversTo(filter, name) <=> LevelsMatch(filter, name))

(* What iotx_mc_check_topic promises of a filter, as far as its copy goes, *)
(* which is the whole filter unless that has all the characters it may     *)
(* have.  It refuses no filter that is well formed, is not too long, has   *)
(* some text and can be printed.  One that passes is not too long, has its *)
(* wildcards in levels of their own, and can be printed but for a last     *)
(* level of one character, for which infra_strtok gives no token.          *)
ValidFiltersPass ==
    LET copy == topicString(filter)
        L == Levels(copy)
        fits == Len(filter) <= CONFIG_MQTT_TOPIC_MAXLEN
        passes == iotx_mc_check_topic(filter, "TOPIC_FILTER_TYPE")
    IN  /\ (/\ fits
            /\ WellFormedFilter(copy)
            /\ \E i \in 1 .. Len(L) : L[i] # <<>>
            /\ Printable(copy)) => passes
        /\ passes =>
              /\ fits
              /\ \A i \in 1 .. Len(L) :
                    /\ Wild(L[i]) => Len(L[i]) = 1
                    /\ ~Printable(L[i]) => i = Len(L) /\ Len(L[i]) = 1

(* "The character '#' is not in the last" is an error                      *)
(* (iotx_mqtt_client.c:2299): a filter that passes has '#' only in its     *)
(* last level.  The code does not keep to it: "/#/a" passes, as the mask   *)
(* is set only by the tokens after the first one.                          *)
HashOnlyLast ==
    iotx_mc_check_topic(filter, "TOPIC_FILTER_TYPE") =>
        LET L == Levels(filter) IN \A i \in 1 .. Len(L) - 1 : L[i] # <<"#">>

(* "has character # and + is error" (iotx_mqtt_client.c:2253): a name that *)
(* passes for a publication has no wildcard.                               *)
NamesHaveNoWildcard ==
    iotx_mc_check_topic(filter, "TOPIC_NAME_TYPE") => WellFormedName(filter)
=============================================================================
