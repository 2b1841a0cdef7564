----------------------------- MODULE MqttTopic -----------------------------
(***************************************************************************)
(* The topic algorithms of iotx_mqtt_client.c: the validation of a topic   *)
(* before it is sent (iotx_mc_check_topic, with the tokenizer              *)
(* infra_strtok it uses), the match of a filter against a topic name       *)
(* (iotx_mc_is_topic_matched) and the comparison MQTTPacket_equals.        *)
(*                                                                         *)
(* A C string is the sequence of its characters without the terminator;   *)
(* the terminator is the character NUL where the code counts it into a     *)
(* length.                                                                 *)
(***************************************************************************)
EXTENDS Naturals, Sequences, FiniteSets

CONSTANTS
    Letters,                    \* the printable characters that have no meaning
    Unprintable,                \* those below 32 or from 127 on
    CONFIG_MQTT_TOPIC_MAXLEN

NUL == "0"
Char == Letters \cup Unprintable \cup {"/", "+", "#"}

ASSUME TopicAssumption ==
    /\ (Letters \cup Unprintable) \cap {"/", "+", "#", NUL} = {}
    /\ Letters \cap Unprintable = {}
    /\ CONFIG_MQTT_TOPIC_MAXLEN \in Nat \ {0}

TopicType == {"TOPIC_NAME_TYPE", "TOPIC_FILTER_TYPE"}

-----------------------------------------------------------------------------
(* infra_strtok(str, "/").  It returns the next token of s from position   *)
(* at, and the position it keeps in its static variable for the next call. *)
(* Nothing is returned when at most one character is left.                 *)

None == <<>>                        \* the C NULL; a token is never empty

NextSlash(s, k) == {i \in k .. Len(s) : s[i] = "/"}
NextOther(s, k) == {i \in k .. Len(s) : s[i] # "/"}
Least(S) == CHOOSE i \in S : \A j \in S : i <= j

infra_strtok(s, at) ==
    IF Len(s) < at + 1
    THEN [token |-> None, at |-> at]
    ELSE IF NextOther(s, at) = {}
    THEN [token |-> None, at |-> Len(s)]
    ELSE LET first == Least(NextOther(s, at))
             ends  == NextSlash(s, first)
         IN  IF ends = {}
             THEN [token |-> SubSeq(s, first, Len(s)), at |-> Len(s) + 1]
             ELSE LET end == Least(ends) IN
                  [token |-> SubSeq(s, first, end - 1),
                   at    |-> IF end = Len(s) THEN end ELSE end + 1]

\* Mutant: a wildcard may share its token with other text.
iotx_mc_check_rule_Shared(token, type) ==
    /\ token # None
    /\ \A i \in 1 .. Len(token) :
          /\ token[i] \in {"+", "#"} => type = "TOPIC_FILTER_TYPE"
          /\ token[i] \notin Unprintable

(* iotx_mc_check_rule: the wildcards stand alone in a filter's token and   *)
(* nowhere in a name's, and every character can be printed.                *)
iotx_mc_check_rule(token, type) ==
    /\ token # None
    /\ \A i \in 1 .. Len(token) :
          /\ token[i] \in {"+", "#"} => type = "TOPIC_FILTER_TYPE" /\ Len(token) = 1
          /\ token[i] \notin Unprintable

(* The loop of iotx_mc_check_topic over the tokens after the first one,    *)
(* from where infra_strtok stands and the value of mask, which is set once *)
(* one of THEM begins with '#'.                                            *)
RestAccepted(s, type) ==
    LET ok[p \in (1 .. Len(s) + 1) \X BOOLEAN] ==
            LET t    == infra_strtok(s, p[1])
                mask == p[2]
            IN  \/ t.token = None
                \/ /\ ~mask
                   /\ iotx_mc_check_rule(t.token, type)
                   /\ ok[<<t.at, t.token[1] = "#">>]
    IN  ok

TokensAccepted(s, type) ==
    LET t == infra_strtok(s, 1)
    IN  /\ iotx_mc_check_rule(t.token, type)
        /\ RestAccepted(s, type)[<<t.at, FALSE>>]

(* The copy that is cut into tokens has one character less than a topic    *)
(* may have: its array keeps room for the terminator.                      *)
topicString(s) ==
    IF Len(s) < CONFIG_MQTT_TOPIC_MAXLEN
    THEN s
    ELSE SubSeq(s, 1, CONFIG_MQTT_TOPIC_MAXLEN - 1)

iotx_mc_check_topic(s, type) ==
    /\ s # <<>>
    /\ s[1] = "/"
    /\ Len(s) <= CONFIG_MQTT_TOPIC_MAXLEN
    /\ TokensAccepted(topicString(s), type)

-----------------------------------------------------------------------------
(* iotx_mc_is_topic_matched: curf and curn walk along the filter and the   *)
(* name; '+' takes curn to the last character of the level, '#' to the     *)
(* last character of the name.                                             *)

EndOfLevel(name, curn) ==
    LET ends == NextSlash(name, curn + 1)
    IN  IF ends = {} THEN Len(name) ELSE Least(ends) - 1

\* Mutant: the walk does not check that a separator meets a separator.
Meets_NoSeparator(c, d) == c \in {"+", "#", d}

(* The two tests of a character c of the filter against d of the name.     *)
Meets(c, d) ==
    /\ d = "/" => c = "/"
    /\ c \in {"+", "#", d}

(* The last character of the name that the character at curf stands for.   *)
StandsUpTo(filter, curf, name, curn) ==
    CASE filter[curf] = "+" -> EndOfLevel(name, curn)
      [] filter[curf] = "#" -> Len(name)
      [] OTHER -> curn

(* Whether the walk succeeds, from each pair of curf and curn.             *)
MatchWalk(filter, name) ==
    LET walk[p \in (1 .. Len(filter) + 1) \X (1 .. Len(name) + 1)] ==
            LET curf == p[1]
                curn == p[2]
            IN  IF curf > Len(filter) \/ curn > Len(name)
                THEN curf = Len(filter) + 1 /\ curn = Len(name) + 1
                ELSE /\ Meets(filter[curf], name[curn])
                     /\ walk[<<curf + 1, StandsUpTo(filter, curf, name, curn) + 1>>]
    IN  walk

iotx_mc_is_topic_matched(filter, name) == MatchWalk(filter, name)[<<1, 1>>]

(* MQTTPacket_equals: the same length and the same characters.             *)
MQTTPacket_equals(name, filter) == name = filter

(* The test a delivery applies to a handler of the list.                   *)
DeliversTo(filter, name) ==
    \/ MQTTPacket_equals(name, filter)
    \/ iotx_mc_is_topic_matched(filter, name)

\* Mutant: only equality is tested.
UnsubscribeRemoves_EqualsOnly(filter, unsubscribed) ==
    MQTTPacket_equals(Append(unsubscribed, NUL), filter)

(* The test MQTTUnsubscribe applies to a handler of the list: the length   *)
(* of cur_topic counts the terminator.                                     *)
UnsubscribeRemoves(filter, unsubscribed) ==
    LET cur_topic == Append(unsubscribed, NUL)
    IN  \/ MQTTPacket_equals(cur_topic, filter)
        \/ iotx_mc_is_topic_matched(filter, cur_topic)

-----------------------------------------------------------------------------
(* A reference definition by levels.  Two rules are narrower than those of *)
(* the MQTT standard, as the code has them: '+' does not stand for an      *)
(* empty level, and '#' needs at least one character of a level of its own *)
(* that does not begin empty.                                              *)

Slashes(s) == NextSlash(s, 1)
SlashesUpTo(s, k) == {i \in Slashes(s) : i <= k}
LevelEnd(s, k) == CHOOSE e \in k .. Len(s) :
                      /\ \A i \in k + 1 .. e : s[i] # "/"
                      /\ e # Len(s) => s[e + 1] = "/"
(* The level after the slash at k: the text up to the next slash.          *)
Level(s, k) == SubSeq(s, k + 1, LevelEnd(s, k))
(* The levels of s, which begins with '/', in their order.                 *)
SlashOf(s, c) == CHOOSE k \in Slashes(s) : Cardinality(SlashesUpTo(s, k)) = c
Levels(s) == [c \in 1 .. Cardinality(Slashes(s)) |-> Level(s, SlashOf(s, c))]

Wild(l) == \E i \in 1 .. Len(l) : l[i] \in {"+", "#"}
Printable(l) == \A i \in 1 .. Len(l) : l[i] \notin Unprintable

WellFormedFilter(s) ==
    /\ s # <<>> /\ s[1] = "/"
    /\ LET L == Levels(s) IN \A i \in 1 .. Len(L) :
          Wild(L[i]) => /\ Len(L[i]) = 1
                        /\ L[i] = <<"#">> => i = Len(L)

WellFormedName(s) == s # <<>> /\ s[1] = "/" /\ ~ \E i \in 1 .. Len(Levels(s)) : Wild(Levels(s)[i])

LevelsMatch(filter, name) ==
    LET F == Levels(filter)
        N == Levels(name)
        Fits(i) == F[i] = N[i] \/ (F[i] = <<"+">> /\ N[i] # <<>>)
    IN  IF F[Len(F)] = <<"#">>
        THEN /\ Len(N) >= Len(F)
             /\ N[Len(F)] # <<>>
             /\ \A i \in 1 .. Len(F) - 1 : Fits(i)
        ELSE Len(N) = Len(F) /\ \A i \in 1 .. Len(F) : Fits(i)
=============================================================================
