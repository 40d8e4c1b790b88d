------------------------------ MODULE MqttTopic ------------------------------
(***************************************************************************)
(* How the MQTT client recognises topics: which topic filters              *)
(* iotx_mc_check_topic accepts, and the search of a subscription's handler *)
(* by MQTTPacket_equals and iotx_mc_is_topic_matched, for an incoming      *)
(* message (iotx_mc_deliver_message) and for IOT_MQTT_Unsubscribe, which   *)
(* looks its topic up with the terminating zero in its length.             *)
(*                                                                         *)
(* Topics are sequences of characters; NUL is the byte the unsubscribing   *)
(* caller counts in.                                                       *)
(***************************************************************************)
EXTENDS Naturals, Sequences, SequencesExt, Lists

CONSTANTS Letters,    \* the characters without a meaning of their own
          NameMax,    \* bound: length of a topic name
          FilterMax   \* bound: length of a topic filter

NUL == "NUL"

ASSUME TopicAssumption ==
    /\ Letters \cap {"/", "+", "#", NUL} = {}
    /\ NameMax \in Nat \ {0} /\ FilterMax \in Nat \ {0}

VARIABLES mode,      \* who searches: "deliver" or "unsubscribe"
          filter,    \* topic_filter of the list node looked at
          name,      \* topicName: the topic searched for
          curf,      \* position in filter
          curn,      \* position in name
          found      \* the outcome of the search: "unknown", "yes" or "no"

topicVars == <<mode, filter, name, curf, curn, found>>

Characters == Letters \cup {"/", "+", "#", NUL}

(* The levels of a topic, cut at every "/".                                *)
Slashes(s) == Without([i \in 1 .. Len(s) |-> i], {i \in 1 .. Len(s) : s[i] # "/"})
Cuts(s) == <<0>> \o Slashes(s) \o <<Len(s) + 1>>
Levels(s) == [k \in 1 .. Len(Cuts(s)) - 1 |-> SubSeq(s, Cuts(s)[k] + 1, Cuts(s)[k + 1] - 1)]

NonEmpty(ls) == Without(ls, {<<>>})

(* The tokens infra_strtok yields: the levels that are not empty, except   *)
(* for a last level of one character behind another token, because a rest  *)
(* no longer than the delimiter counts as the end.                         *)
Tokens(s) ==
    LET ls == Levels(s)
        n  == Len(ls)
        cut == n > 1 /\ Len(ls[n]) = 1 /\ ls[n - 1] # <<>>
    IN NonEmpty(IF cut THEN Front(ls) ELSE ls)

(* iotx_mc_check_rule for a token of a filter: a wildcard stands alone.    *)
iotx_mc_check_rule(token) ==
    (\E i \in DOMAIN token : token[i] \in {"+", "#"}) => Len(token) = 1

(* iotx_mc_check_topic(s, TOPIC_FILTER_TYPE).  The flag that refuses a     *)
(* token behind a "#" is set for every token but the first.                *)
iotx_mc_check_topic(s) ==
    /\ s # <<>> /\ s[1] = "/"
    /\ Tokens(s) # <<>>
    /\ \A k \in DOMAIN Tokens(s) : iotx_mc_check_rule(Tokens(s)[k])
    /\ \A k \in 2 .. Len(Tokens(s)) - 1 : Tokens(s)[k] # <<"#">>

TopicNames   == {s \in SeqOf(Letters \cup {"/"}, NameMax) : s # <<>> /\ s[1] = "/"}
TopicFilters == {s \in SeqOf(Letters \cup {"/", "+", "#"}, FilterMax) : iotx_mc_check_topic(s)}

(* The topic MQTTUnsubscribe searches for: cur_topic.lenstring.len is      *)
(* strlen + 1.                                                             *)
SearchedName(s) == Append(s, NUL)

(* Every variable has values of its type, and neither position leaves its  *)
(* string by more than one.                                                *)
TopicTypeOK ==
    /\ filter \in Seq(Characters) /\ name \in Seq(Characters)
    /\ mode \in {"deliver", "unsubscribe"}
    /\ curf \in 1 .. Len(filter) + 1
    /\ curn \in 1 .. Len(name) + 1
    /\ found \in {"unknown", "yes", "no"}

TopicInit ==
    /\ filter \in TopicFilters
    /\ \/ mode = "deliver" /\ name \in TopicNames
       \/ mode = "unsubscribe" /\ name \in {SearchedName(s) : s \in TopicFilters}
    /\ curf = 1 /\ curn = 1
    /\ found = "unknown"

(* MQTTPacket_equals compares the lengths and the bytes.                   *)
MQTTPacket_equals ==
    /\ found = "unknown"
    /\ name = filter
    /\ found' = "yes"
    /\ UNCHANGED <<mode, filter, name, curf, curn>>

InLoop == found = "unknown" /\ name # filter /\ curf <= Len(filter) /\ curn <= Len(name)

(* Mutant of SameChar: a "+" also swallows separators.                     *)
PlusCrossesLevels == filter[curf] \in {"+", "#"} \/ filter[curf] = name[curn]

(* The character of the filter fits that of the name.                      *)
SameChar ==
    /\ name[curn] = "/" => filter[curf] = "/"
    /\ filter[curf] \in {"+", "#", name[curn]}

(* Mutant of EndOfLevel: a "+" stands for one character.                   *)
OneCharacter == curn + 1

(* The position behind the rest of the name's level.                       *)
EndOfLevel ==
    CHOOSE i \in curn + 1 .. Len(name) + 1 :
        /\ \A j \in curn + 1 .. i - 1 : name[j] # "/"
        /\ i <= Len(name) => name[i] = "/"

(* The position behind the name: curn_end - 1, and the round adds one.     *)
EndOfName == Len(name) + 1

(* One round of the loop of iotx_mc_is_topic_matched.                      *)
MatchChar ==
    /\ InLoop
    /\ SameChar
    /\ curf' = curf + 1
    /\ curn' = CASE filter[curf] = "+" -> EndOfLevel
                 [] filter[curf] = "#" -> EndOfName
                 [] OTHER -> curn + 1
    /\ UNCHANGED <<mode, filter, name, found>>

(* The loop is left and the result is computed.                            *)
iotx_mc_is_topic_matched ==
    /\ found = "unknown" /\ name # filter
    /\ ~ (InLoop /\ SameChar)
    /\ found' = IF curn = Len(name) + 1 /\ curf = Len(filter) + 1 THEN "yes" ELSE "no"
    /\ UNCHANGED <<mode, filter, name, curf, curn>>

SearchOver == found # "unknown" /\ UNCHANGED topicVars

TopicNext == MQTTPacket_equals \/ MatchChar \/ iotx_mc_is_topic_matched \/ SearchOver

TopicSpec == TopicInit /\ [][TopicNext]_topicVars

-----------------------------------------------------------------------------
(* Properties.                                                             *)

(* The reference: matching level by level, as MQTT defines it.             *)
LevelMatch(fl, nl) ==
    LET hash == fl[Len(fl)] = <<"#">>
        fixed == IF hash THEN Len(fl) - 1 ELSE Len(fl)
    IN /\ IF hash THEN Len(nl) >= fixed ELSE Len(nl) = fixed
       /\ \A k \in 1 .. fixed : fl[k] \in {<<"+">>, nl[k]}

(* A message is only given to handlers whose filter covers its topic, and  *)
(* an unsubscription only removes handlers whose filter covers what it     *)
(* looks for: iotx_mc_is_topic_matched never crosses a level by accident.  *)
FoundIsCovered ==
    found = "yes" => LevelMatch(Levels(filter), Levels(name))

(* The zero at the end of what an unsubscription looks for is in no        *)
(* filter: only handlers whose filter ends in a wildcard are found and     *)
(* removed (client.c:2461), whatever filter is unsubscribed.               *)
ZeroNeedsWildcard ==
    mode = "unsubscribe" /\ found = "yes" =>
        Levels(filter)[Len(Levels(filter))] \in {<<"+">>, <<"#">>}

(* The search stays inside both strings and finds no handler it should not *)
(* find.                                                                   *)
TopicInv == TopicTypeOK /\ FoundIsCovered /\ ZeroNeedsWildcard

(* A message whose topic a filter covers reaches its handler, if no level  *)
(* of the name is empty and the "#" has a level of its own to match.       *)
CoveredIsDelivered ==
    /\ mode = "deliver" /\ found = "no"
    /\ \A k \in 2 .. Len(Levels(name)) : Levels(name)[k] # <<>>
    /\ Len(Levels(name)) >= Len(Levels(filter))
    => ~ LevelMatch(Levels(filter), Levels(name))

=============================================================================
