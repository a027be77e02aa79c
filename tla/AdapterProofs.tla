--------------------------- MODULE AdapterProofs ----------------------------
(***************************************************************************)
(* Theorems about AdapterProbe, for any groups, requests and timeouts.     *)
(***************************************************************************)
EXTENDS CellPath, FiniteSetTheorems, FunctionTheorems, WellFoundedInduction, TLAPS

Response == [handshake_success : BOOLEAN, group : KeyExchange,
             messages : Seq(Kinds), http : BOOLEAN, failed_stage : Stage \cup {"none"}]

\* TypeOK with a name for the set of answers.
Typed ==
    /\ backend \in Backend
    /\ kem_groups \in Seq(Group)
    /\ phase \in {"send", "spawn", "dial", "handshake", "http", "exit", "wedged", "done"}
    /\ reached \in {"none", "tcp", "tls", "http"}
    /\ group \in KeyExchange
    /\ alerted \in BOOLEAN
    /\ clock \in Nat
    /\ deadline \in Nat
    /\ dialled \in Nat
    /\ lost \in BOOLEAN
    /\ answer \in Response
    /\ (phase = "done") <=> (answer.failed_stage # "none")

LEMMA TypedIsTypeOK == Typed <=> TypeOK
BY DEF Typed, TypeOK, Response

\* What the adapters answer is an answer, with a stage.
LEMMA FailureType ==
    ASSUME NEW s \in Stage
    PROVE  /\ failure(s) \in Response
           /\ failure(s).failed_stage # "none"
           /\ ~failure(s).handshake_success
<1>1. << >> \in Seq(Kinds)
  OBVIOUS
<1>2. QED
  BY <1>1 DEF failure, Response, Stage, KeyExchange

LEMMA BuildType ==
    ASSUME NEW ok \in BOOLEAN, NEW g \in KeyExchange,
           NEW alert \in BOOLEAN, NEW http \in BOOLEAN
    PROVE  /\ build_response(ok, g, alert, http) \in Response
           /\ build_response(ok, g, alert, http).failed_stage # "none"
           /\ build_response(ok, g, alert, http).handshake_success = ok
           /\ build_response(ok, g, alert, http).group = g
<1> DEFINE m == IF ok THEN <<"ClientHello", "ServerHello">>
                ELSE IF alert THEN <<"ClientHello", "Alert">> ELSE <<"ClientHello">>
           st == IF ~ok THEN "tls_handshake" ELSE IF http THEN "complete" ELSE "http_request"
<1>1. m \in Seq(Kinds)
  <2>1. /\ <<"ClientHello", "ServerHello">> \in Seq(Kinds)
        /\ <<"ClientHello", "Alert">> \in Seq(Kinds)
        /\ <<"ClientHello">> \in Seq(Kinds)
    BY DEF Kinds
  <2>2. QED
    BY <2>1
<1>2. st \in Stage /\ st # "none"
  BY DEF Stage
<1>3. build_response(ok, g, alert, http) =
        [handshake_success |-> ok, group |-> g, messages |-> m, http |-> http,
         failed_stage |-> st]
  BY DEF build_response
<1> HIDE DEF m, st
<1>4. QED
  BY <1>1, <1>2, <1>3 DEF Response

\* The refusal of the Go adapter.
LEMMA RefusalType ==
    /\ dial_failure \in Response
    /\ dial_failure.failed_stage # "none"
    /\ ~dial_failure.handshake_success
<1>1. <<"ClientHello">> \in Seq(Kinds)
  BY DEF Kinds
<1>2. QED
  BY <1>1 DEF dial_failure, Response, Stage, KeyExchange

-----------------------------------------------------------------------------

\* What the phases of a probe say about the network and the answer.
Agreed ==
    /\ phase # "done" => answer = NoAnswer
    /\ phase = "http" => reached = "tls"
    /\ phase \in {"send", "spawn", "dial", "handshake"} => ~HandshakeDone
    /\ HandshakeDone => group \in Offered \cup Groupless
    /\ (~Cli /\ (HandshakeDone \/ phase \in {"dial", "handshake", "http"})) =>
          kem_groups = << >> \/ curves # {}
    /\ phase = "spawn" => Cli
    /\ phase = "exit" => Cli

\* The inductive invariant.
IndInv == Typed /\ TimersHold /\ Agreed /\ NoFalseGreen /\ RedOnlyByTimeout

LEMMA InitInd == Init => IndInv
<1> SUFFICES ASSUME Init PROVE IndInv
  OBVIOUS
<1>1. << >> \in Seq(Kinds)
  OBVIOUS
<1>2. answer \in Response /\ answer.failed_stage = "none" /\ ~answer.handshake_success
  BY <1>1 DEF Init, Fresh, NoAnswer, Response, KeyExchange
<1>3. Typed
  BY <1>2, AdapterAssumption DEF Init, Fresh, Typed, KeyExchange
<1>4. TimersHold
  BY AdapterAssumption DEF Init, Fresh, TimersHold
<1>5. Agreed /\ NoFalseGreen /\ RedOnlyByTimeout
  BY <1>2 DEF Init, Fresh, Agreed, NoFalseGreen, RedOnlyByTimeout, HandshakeDone
<1>6. QED
  BY <1>3, <1>4, <1>5 DEF IndInv

\* A step that answers, while the net and the timers stand still.
LEMMA AnswerKeeps ==
    ASSUME IndInv, phase # "done",
           NEW r \in Response, r.failed_stage # "none",
           Answers(r), UNCHANGED <<env, net, time>>, lost' \in BOOLEAN,
           r.handshake_success => HandshakeDone /\ r.group \in {group, None},
           (HandshakeDone /\ ~r.handshake_success) =>
               lost' \/ clock >= Timeout \/ clock >= Outer
    PROVE  IndInv'
<1>1. Typed'
  BY DEF IndInv, Typed, Answers, env, net, time
<1>2. TimersHold'
  BY DEF IndInv, TimersHold, Answers, env, net, time, Cli
<1>3. Agreed'
  BY DEF IndInv, Agreed, Answers, env, net, time, Cli, HandshakeDone, Offered, Groupless, pqc, curves, Listed
<1>4. NoFalseGreen'
  BY DEF NoFalseGreen, Answers, net, HandshakeDone
<1>5. RedOnlyByTimeout'
  BY DEF RedOnlyByTimeout, Answers, net, time, HandshakeDone
<1>6. QED
  BY <1>1, <1>2, <1>3, <1>4, <1>5 DEF IndInv

\* A step before the answer that leaves the answer, and what was negotiated.
LEMMA NoAnswerYet ==
    ASSUME IndInv, phase # "done", UNCHANGED answer, phase' # "done"
    PROVE  /\ answer' = NoAnswer
           /\ NoFalseGreen'
           /\ RedOnlyByTimeout'
           /\ answer' \in Response
           /\ (phase' = "done") <=> (answer'.failed_stage # "none")
  BY DEF IndInv, Typed, Agreed, NoFalseGreen, RedOnlyByTimeout, NoAnswer

-----------------------------------------------------------------------------
(***************************************************************************)
(* Reading the output of a command                                         *)
(***************************************************************************)

\* What is read is right: a cipher is found if and only if the handshake was
\* completed, and then the group is that of the handshake or is not found.
Right(out) ==
    /\ handshake_success(out) <=> HandshakeDone
    /\ negotiated_group(out) \in KeyExchange
    /\ HandshakeDone => negotiated_group(out) \in {group, None}

\* A label has the lines that it was given.
LEMMA LineIs ==
    ASSUME NEW out, DOMAIN out = Label, NEW l \in Label, NEW values
    PROVE  /\ DOMAIN Line(out, l, values) = Label
           /\ Line(out, l, values)[l] = values
           /\ \A m \in Label : m # l => Line(out, l, values)[m] = out[m]
BY DEF Line

LEMMA SilentIs == DOMAIN Silent = Label /\ \A l \in Label : Silent[l] = << >>
BY DEF Silent

\* The output is a summary, then an alert and an HTTP answer.
LEMMA OutputParts ==
    ASSUME NEW out \in Outputs, \A summary \in Summaries : DOMAIN summary = Label
    PROVE  /\ parse_http(out) <=> reached = "http"
           /\ \E summary \in Summaries : \A l \in Label \ {"HTTP/1.", "alert"} : out[l] = summary[l]
<1> DEFINE Alerts == IF alerted THEN Maybe("alert") ELSE {<< >>}
           http == IF reached = "http" THEN <<"status">> ELSE << >>
<1>1. PICK summary \in Summaries, alert \in Alerts :
        out = Line(Line(summary, "HTTP/1.", http), "alert", alert)
  BY DEF Outputs
<1>2. DOMAIN summary = Label
  OBVIOUS
<1>3. http # << >> <=> reached = "http"
  OBVIOUS
<1> HIDE DEF http, Alerts
<1>4. "HTTP/1." \in Label /\ "alert" \in Label
  BY DEF Label
<1>5. DOMAIN Line(summary, "HTTP/1.", http) = Label
  BY <1>2, <1>4, LineIs
<1>6. \A l \in Label \ {"HTTP/1.", "alert"} : out[l] = summary[l]
  BY <1>1, <1>2, <1>4, <1>5, LineIs
<1>7. out["HTTP/1."] = http
  BY <1>1, <1>2, <1>4, <1>5, LineIs
<1>8. QED BY <1>3, <1>6, <1>7 DEF parse_http

\* The line that names the group of a connection of openssl.
LEMMA OpensslKey ==
    ASSUME Typed, NEW key \in openssl_key
    PROVE  /\ DOMAIN key = Label
           /\ \/ /\ key["Negotiated TLS1.3 group: "] = <<group>>
                 /\ group # None
              \/ /\ key["Negotiated TLS1.3 group: "] = << >>
                 /\ temp_key(key, "Peer Temp Key: ") \in {group, None}
                 /\ temp_key(key, "Server Temp Key: ") \in {group, None}
<1> DEFINE neg == "Negotiated TLS1.3 group: "
<1>1. neg \in Label /\ KeyLabel \subseteq Label /\ neg \notin KeyLabel
  BY DEF Label, KeyLabel
<1>a. "Peer Temp Key: " \in KeyLabel /\ "Server Temp Key: " \in KeyLabel
  BY DEF KeyLabel
<1> HIDE DEF neg
<1>2. CASE group = None
  <2>1. key = Silent
    BY <1>2 DEF openssl_key
  <2>2. \A m \in KeyLabel : temp_key(key, m) = None
    BY <1>1, <2>1, SilentIs DEF temp_key
  <2>3. QED BY <1>1, <1>a, <2>1, <2>2, SilentIs DEF neg
<1>3. CASE group # None /\ group \in Group \ Classical
  <2>1. key = Line(Silent, neg, <<group>>)
    BY <1>3 DEF openssl_key, neg
  <2>2. DOMAIN key = Label /\ key[neg] = <<group>>
    BY <1>1, <2>1, SilentIs, LineIs
  <2>3. QED BY <1>3, <2>2 DEF neg
<1>4. CASE group # None /\ group \notin Group \ Classical
  <2>0. key \in KeyLines
    BY <1>4 DEF openssl_key
  <2>1. PICK l \in KeyLabel, k \in KeyParts : key = Line(Silent, l, <<k>>)
    BY <2>0 DEF KeyLines
  <2>2. k = <<group, "bits">> \/ k = <<"ECDH", group, "bits">>
    BY <2>1 DEF KeyParts
  <2>3. group # "ECDH"
    BY <1>4, AdapterAssumption DEF Typed, KeyExchange, Word
  <2>4. strip_key_size(k) = group
    <3>1. CASE k = <<group, "bits">>
      BY <2>3, <3>1 DEF strip_key_size
    <3>2. CASE k = <<"ECDH", group, "bits">>
      BY <3>2 DEF strip_key_size
    <3>3. QED BY <2>2, <3>1, <3>2
  <2>5. /\ DOMAIN key = Label
        /\ key[neg] = << >>
        /\ \A m \in KeyLabel : key[m] = << >> \/ key[m] = <<k>>
    BY <1>1, <2>1, SilentIs, LineIs
  <2>6. <<k>>[1] = k /\ <<k>> # << >>
    OBVIOUS
  <2>7. \A m \in KeyLabel : temp_key(key, m) \in {group, None}
    BY <2>4, <2>5, <2>6 DEF temp_key
  <2>8. QED BY <1>a, <2>5, <2>7 DEF neg
<1>5. QED BY <1>2, <1>3, <1>4

LEMMA ReadOpenssl ==
    ASSUME Typed, backend = "openssl", NEW out \in Outputs
    PROVE  Right(out)
<1> DEFINE is == "Cipher is "
           cipher == "Cipher    : "
           neg == "Negotiated TLS1.3 group: "
           peer == "Peer Temp Key: "
           server == "Server Temp Key: "
<1>1. /\ Summaries = openssl_prints
      /\ cipher_suite(out) = openssl_suite(out)
      /\ negotiated_group(out) = openssl_group(out)
  BY DEF Summaries, cipher_suite, negotiated_group
<1>2. /\ {is, cipher, neg, peer, server} \subseteq Label \ {"HTTP/1.", "alert"}
      /\ is # cipher /\ is # neg /\ cipher # neg
      /\ {peer, server} \cap {is, cipher, neg} = {}
  BY DEF Label
<1>3. group \in KeyExchange /\ None \in KeyExchange /\ "suite" # None
  BY AdapterAssumption DEF Typed, KeyExchange, Word
<1>4. /\ openssl_suite(out) = filter(or_else(value_after(out, cipher), value_after(out, is)),
                                     {"0000", "(NONE)", "NONE"})
      /\ openssl_group(out) = filter(or_else(value_after(out, neg),
                                             or_else(temp_key(out, peer), temp_key(out, server))),
                                     {"<NULL>", "(NONE)"})
  BY DEF openssl_suite, openssl_group
<1> HIDE DEF is, cipher, neg, peer, server
<1>b. {neg, peer, server} \subseteq Label \ {is, cipher}
  BY <1>2
<1>c. ASSUME NEW o, DOMAIN o = Label, NEW new, NEW session
      PROVE  /\ DOMAIN Ciphers(o, new, session) = Label
             /\ Ciphers(o, new, session)[is] = <<new>>
             /\ Ciphers(o, new, session)[cipher] = session
             /\ Ciphers(o, new, session)[neg] = o[neg]
             /\ Ciphers(o, new, session)[peer] = o[peer]
             /\ Ciphers(o, new, session)[server] = o[server]
  <2> DEFINE first == Line(o, is, <<new>>)
  <2>1. Ciphers(o, new, session) = Line(first, cipher, session)
    BY DEF Ciphers, is, cipher
  <2>2. /\ DOMAIN first = Label /\ first[is] = <<new>>
        /\ \A l \in Label \ {is} : first[l] = o[l]
    BY <1>2, <1>c, LineIs
  <2> HIDE DEF first
  <2>3. /\ DOMAIN Line(first, cipher, session) = Label
        /\ Line(first, cipher, session)[is] = <<new>>
        /\ Line(first, cipher, session)[cipher] = session
        /\ \A l \in Label \ {is, cipher} : Line(first, cipher, session)[l] = o[l]
    BY <1>2, <2>2, LineIs
  <2>4. QED BY <1>b, <2>1, <2>3
<1>5. CASE HandshakeDone
  <2>1. \A summary \in Summaries : \E key \in openssl_key, session \in Maybe("suite") :
          summary = Ciphers(key, "suite", session)
    BY <1>1, <1>5 DEF openssl_prints, openssl_connected
  <2>2. ASSUME NEW key \in openssl_key, NEW session \in Maybe("suite")
        PROVE  /\ DOMAIN Ciphers(key, "suite", session) = Label
               /\ Ciphers(key, "suite", session)[is] = <<"suite">>
               /\ Ciphers(key, "suite", session)[cipher] = session
               /\ \A l \in {neg, peer, server} : Ciphers(key, "suite", session)[l] = key[l]
    <3>1. DOMAIN key = Label
      BY OpensslKey
    <3>2. QED BY <1>c, <3>1
  <2>3. \A summary \in Summaries : DOMAIN summary = Label
    BY <2>1, <2>2
  <2>4. PICK summary \in Summaries : \A l \in Label \ {"HTTP/1.", "alert"} : out[l] = summary[l]
    BY <2>3, OutputParts
  <2>5. PICK key \in openssl_key, session \in Maybe("suite") :
          summary = Ciphers(key, "suite", session)
    BY <2>1
  <2>6. /\ out[is] = <<"suite">>
        /\ out[cipher] = << >> \/ out[cipher] = <<"suite">>
        /\ out[neg] = key[neg] /\ out[peer] = key[peer] /\ out[server] = key[server]
    BY <1>2, <2>2, <2>4, <2>5 DEF Maybe
  <2>7. value_after(out, is) = "suite" /\ value_after(out, cipher) \in {"suite", None}
    BY <2>6 DEF value_after
  <2>8. openssl_suite(out) = "suite"
    BY <1>3, <1>4, <2>7 DEF or_else, filter
  <2>9. openssl_group(out) \in {group, None}
    <3>0. \/ key[neg] = <<group>> /\ group # None
          \/ /\ key[neg] = << >>
             /\ temp_key(key, peer) \in {group, None} /\ temp_key(key, server) \in {group, None}
      BY OpensslKey DEF neg, peer, server
    <3>1. CASE key[neg] = <<group>> /\ group # None
      <4>1. value_after(out, neg) = group
        BY <2>6, <3>1 DEF value_after
      <4>2. QED BY <1>4, <3>1, <4>1 DEF or_else, filter
    <3>2. CASE /\ key[neg] = << >>
               /\ temp_key(key, peer) \in {group, None} /\ temp_key(key, server) \in {group, None}
      <4>3. temp_key(out, peer) \in {group, None} /\ temp_key(out, server) \in {group, None}
        BY <2>6, <3>2 DEF temp_key
      <4>4. value_after(out, neg) = None
        BY <2>6, <3>2 DEF value_after
      <4>5. QED BY <1>4, <4>3, <4>4 DEF or_else, filter
    <3>3. QED BY <3>0, <3>1, <3>2
  <2>10. QED BY <1>1, <1>3, <1>5, <2>8, <2>9 DEF Right, handshake_success
<1>6. CASE ~HandshakeDone
  <2> DEFINE Failed(key, session) == Ciphers(NoKey(key), "(NONE)", session)
  <2>1. \A summary \in Summaries :
          \/ summary = Silent
          \/ \E key \in Maybe("<NULL>"), session \in Maybe("0000") : summary = Failed(key, session)
    BY <1>1, <1>6 DEF openssl_prints, openssl_failed
  <2>2. ASSUME NEW key \in Maybe("<NULL>"), NEW session \in Maybe("0000")
        PROVE  /\ DOMAIN Failed(key, session) = Label
               /\ Failed(key, session)[is] = <<"(NONE)">>
               /\ Failed(key, session)[cipher] = session
               /\ Failed(key, session)[neg] = key
               /\ Failed(key, session)[peer] = << >>
               /\ Failed(key, session)[server] = << >>
    <3>1. /\ DOMAIN NoKey(key) = Label
          /\ NoKey(key)[neg] = key
          /\ NoKey(key)[peer] = << >> /\ NoKey(key)[server] = << >>
      <4>1. NoKey(key) = Line(Silent, neg, key)
        BY DEF NoKey, neg
      <4>2. neg \in Label /\ peer \in Label /\ server \in Label /\ peer # neg /\ server # neg
        BY <1>2
      <4>3. QED BY <4>1, <4>2, SilentIs, LineIs
    <3>2. QED BY <1>c, <3>1
  <2> HIDE DEF Failed
  <2>3. \A summary \in Summaries : DOMAIN summary = Label
    BY <2>1, <2>2, SilentIs
  <2>4. ~parse_http(out)
    BY <1>6, <2>3, OutputParts DEF HandshakeDone
  <2>5. PICK summary \in Summaries : \A l \in Label \ {"HTTP/1.", "alert"} : out[l] = summary[l]
    BY <2>3, OutputParts
  <2>6. /\ out[is] = << >> \/ out[is] = <<"(NONE)">>
        /\ out[cipher] = << >> \/ out[cipher] = <<"0000">>
        /\ out[neg] = << >> \/ out[neg] = <<"<NULL>">>
        /\ out[peer] = << >> /\ out[server] = << >>
    <3>1. CASE summary = Silent
      BY <1>2, <2>5, <3>1, SilentIs
    <3>2. CASE summary # Silent
      <4>1. PICK key \in Maybe("<NULL>"), session \in Maybe("0000") : summary = Failed(key, session)
        BY <2>1, <3>2
      <4>2. QED BY <1>2, <2>2, <2>5, <4>1 DEF Maybe
    <3>3. QED BY <3>1, <3>2
  <2>7. /\ value_after(out, is) \in {"(NONE)", None}
        /\ value_after(out, cipher) \in {"0000", None}
        /\ value_after(out, neg) \in {"<NULL>", None}
        /\ temp_key(out, peer) = None /\ temp_key(out, server) = None
    BY <2>6 DEF value_after, temp_key
  <2>8. openssl_suite(out) = None /\ openssl_group(out) = None
    BY <1>4, <2>7 DEF or_else, filter
  <2>9. QED BY <1>1, <1>3, <1>6, <2>4, <2>8 DEF Right, handshake_success
<1>7. QED BY <1>5, <1>6

LEMMA ReadBoringssl ==
    ASSUME Typed, backend = "boringssl", NEW out \in Outputs
    PROVE  Right(out)
<1> DEFINE cipher == "Cipher: "
           Lines == {"ECDHE group: ", "ECDHE curve: ", "Group: "}
           key == IF group = None THEN << >> ELSE <<group>>
<1>1. /\ cipher_suite(out) = value_after(out, cipher)
      /\ \E a, b, c \in Lines : negotiated_group(out) =
            or_else(value_after(out, a), or_else(value_after(out, b), value_after(out, c)))
  BY DEF cipher_suite, negotiated_group
<1>2. Summaries = IF HandshakeDone
                  THEN {Line(Line(Silent, cipher, <<"suite">>), l, key) : l \in Lines}
                  ELSE {Silent}
  BY DEF Summaries, boringssl_prints
<1>3. cipher \in Label \ {"HTTP/1.", "alert"} /\ Lines \subseteq Label \ {"HTTP/1.", "alert"}
      /\ cipher \notin Lines
  BY DEF Label
<1>4. group \in KeyExchange /\ None \in KeyExchange /\ "suite" # None
  BY AdapterAssumption DEF Typed, KeyExchange, Word
<1>5. key = << >> \/ key = <<group>>
  OBVIOUS
<1> HIDE DEF cipher, Lines, key
<1>6. ASSUME NEW l \in Lines
      PROVE  LET summary == Line(Line(Silent, cipher, <<"suite">>), l, key)
             IN  /\ DOMAIN summary = Label
                 /\ summary[cipher] = <<"suite">>
                 /\ \A m \in Lines : summary[m] = << >> \/ summary[m] = key
  <2>1. DOMAIN Line(Silent, cipher, <<"suite">>) = Label
    BY <1>3, SilentIs, LineIs
  <2>2. QED BY <1>3, <2>1, SilentIs, LineIs
<1>7. \A summary \in Summaries : DOMAIN summary = Label
  BY <1>2, <1>6, SilentIs
<1>8. PICK summary \in Summaries : \A l \in Label \ {"HTTP/1.", "alert"} : out[l] = summary[l]
  BY <1>7, OutputParts
<1>9. CASE HandshakeDone
  <2>1. PICK l \in Lines : summary = Line(Line(Silent, cipher, <<"suite">>), l, key)
    BY <1>2, <1>9
  <2>2. out[cipher] = <<"suite">> /\ \A m \in Lines : out[m] = << >> \/ out[m] = <<group>>
    BY <1>3, <1>5, <1>6, <1>8, <2>1
  <2>3. value_after(out, cipher) = "suite"
    BY <2>2 DEF value_after
  <2>4. \A m \in Lines : value_after(out, m) \in {group, None}
    BY <2>2 DEF value_after
  <2>5. negotiated_group(out) \in {group, None}
    BY <1>1, <2>4 DEF or_else
  <2>6. QED BY <1>1, <1>4, <1>9, <2>3, <2>5 DEF Right, handshake_success
<1>10. CASE ~HandshakeDone
  <2>1. out[cipher] = << >> /\ \A m \in Lines : out[m] = << >>
    BY <1>2, <1>3, <1>8, <1>10, SilentIs
  <2>2. value_after(out, cipher) = None /\ \A m \in Lines : value_after(out, m) = None
    BY <2>1 DEF value_after
  <2>3. negotiated_group(out) = None
    BY <1>1, <2>2 DEF or_else
  <2>4. ~parse_http(out)
    BY <1>7, <1>10, OutputParts DEF HandshakeDone
  <2>5. QED BY <1>1, <1>4, <1>10, <2>2, <2>3, <2>4 DEF Right, handshake_success
<1>11. QED BY <1>9, <1>10

LEMMA ReadWolfssl ==
    ASSUME Typed, Agreed, backend = "wolfssl", NEW out \in Outputs
    PROVE  Right(out)
<1> DEFINE cipher == "SSL cipher suite is "
           kem == "Using Post-Quantum KEM: "
           name == "SSL curve name is "
           suite == IF HandshakeDone THEN <<"suite">> ELSE << >>
           used == IF pqc THEN <<kem_groups[1]>> ELSE << >>
           Curves == IF ~HandshakeDone THEN {<< >>}
                     ELSE IF group \in Classical THEN {<<group>>}
                     ELSE {<< >>} \cup {<<c>> : c \in Classical}
           Summary(curve) == Line(Line(Line(Silent, cipher, suite), kem, used), name, curve)
<1>1. /\ cipher_suite(out) = value_after(out, cipher)
      /\ negotiated_group(out) = or_else(value_after(out, kem), value_after(out, name))
  BY DEF cipher_suite, negotiated_group
<1>2. Summaries = {Summary(curve) : curve \in Curves}
  BY DEF Summaries, wolfssl_prints
<1>3. /\ {cipher, kem, name} \subseteq Label \ {"HTTP/1.", "alert"}
      /\ cipher # kem /\ cipher # name /\ kem # name
  BY DEF Label
<1>4. group \in KeyExchange /\ None \in KeyExchange /\ "suite" # None
  BY AdapterAssumption DEF Typed, KeyExchange, Word
<1> HIDE DEF cipher, kem, name, suite, used, Curves
<1>5. ASSUME NEW curve \in Curves
      PROVE  /\ DOMAIN Summary(curve) = Label
             /\ Summary(curve)[cipher] = suite
             /\ Summary(curve)[kem] = used
             /\ Summary(curve)[name] = curve
  <2> DEFINE one == Line(Silent, cipher, suite)
             two == Line(one, kem, used)
  <2>1. DOMAIN one = Label /\ one[cipher] = suite
    BY <1>3, SilentIs, LineIs
  <2> HIDE DEF one
  <2>2. DOMAIN two = Label /\ two[cipher] = suite /\ two[kem] = used
    BY <1>3, <2>1, LineIs
  <2> HIDE DEF two
  <2>3. /\ DOMAIN Line(two, name, curve) = Label
        /\ Line(two, name, curve)[cipher] = suite
        /\ Line(two, name, curve)[kem] = used
        /\ Line(two, name, curve)[name] = curve
    BY <1>3, <2>2, LineIs
  <2>4. QED BY <2>3 DEF one, two
<1> HIDE DEF Summary
<1>6. \A summary \in Summaries : DOMAIN summary = Label
  BY <1>2, <1>5
<1>7. PICK curve \in Curves : \A l \in Label \ {"HTTP/1.", "alert"} : out[l] = Summary(curve)[l]
  BY <1>2, <1>6, OutputParts
<1>8. out[cipher] = suite /\ out[kem] = used /\ out[name] = curve
  BY <1>3, <1>5, <1>7
<1>9. handshake_success(out) <=> HandshakeDone
  <2>1. parse_http(out) => HandshakeDone
    BY <1>6, OutputParts DEF HandshakeDone
  <2>2. value_after(out, cipher) = IF HandshakeDone THEN "suite" ELSE None
    BY <1>8 DEF value_after, suite
  <2>3. QED BY <1>1, <1>4, <2>1, <2>2 DEF handshake_success
<1>10. CASE pqc
  <2>1. kem_groups[1] \in Group
    BY <1>10 DEF pqc, Typed
  <2>2. value_after(out, kem) = kem_groups[1]
    BY <1>8, <1>10 DEF value_after, used
  <2>3. negotiated_group(out) = kem_groups[1]
    BY <1>1, <2>1, <2>2, AdapterAssumption DEF or_else
  <2>4. HandshakeDone => group = kem_groups[1]
    BY <1>10 DEF Agreed, Offered, Groupless
  <2>5. QED BY <1>9, <2>1, <2>3, <2>4 DEF Right, KeyExchange
<1>11. CASE ~pqc
  <2>1. value_after(out, kem) = None
    BY <1>8, <1>11 DEF value_after, used
  <2>2. negotiated_group(out) = value_after(out, name)
    BY <1>1, <2>1 DEF or_else
  <2>3. CASE HandshakeDone
    <3>1. group \in Classical
      BY <1>11, <2>3, AdapterAssumption DEF Agreed, Offered, Groupless
    <3>2. curve = <<group>>
      BY <1>7, <2>3, <3>1 DEF Curves
    <3>3. negotiated_group(out) = group
      BY <1>8, <2>2, <3>2 DEF value_after
    <3>4. QED BY <1>4, <1>9, <3>3 DEF Right
  <2>4. CASE ~HandshakeDone
    <3>1. curve = << >>
      BY <1>7, <2>4 DEF Curves
    <3>2. negotiated_group(out) = None
      BY <1>8, <2>2, <3>1 DEF value_after
    <3>3. QED BY <1>4, <1>9, <2>4, <3>2 DEF Right
  <2>5. QED BY <2>3, <2>4
<1>12. QED BY <1>10, <1>11

LEMMA ReadRight ==
    ASSUME IndInv, phase = "exit", NEW out \in Outputs
    PROVE  /\ handshake_success(out) <=> HandshakeDone
           /\ negotiated_group(out) \in KeyExchange
           /\ HandshakeDone => negotiated_group(out) \in {group, None}
<1>1. Typed /\ Agreed /\ backend \in {"openssl", "boringssl", "wolfssl"}
  BY DEF IndInv, Typed, Agreed, Cli, Backend
<1>2. Right(out)
  BY <1>1, ReadOpenssl, ReadBoringssl, ReadWolfssl
<1>3. QED BY <1>2 DEF Right

-----------------------------------------------------------------------------

LEMMA StepInd == IndInv /\ [Next]_vars => IndInv'
<1> SUFFICES ASSUME IndInv, [Next]_vars PROVE IndInv'
  OBVIOUS
<1> USE AdapterAssumption
<1>a. Typed /\ TimersHold /\ Agreed
  BY DEF IndInv
<1>1. CASE unreachable
  <2>1. ~HandshakeDone /\ phase = "send"
    BY <1>1 DEF unreachable, IndInv, Agreed
  <2>2. QED
    BY <1>1, <2>1, FailureType, AnswerKeeps DEF unreachable, Stage
<1>2. CASE post
  <2>1. phase = "send" /\ phase' \in {"spawn", "dial"} /\ UNCHANGED answer
    BY <1>2 DEF post
  <2>2. Typed'
    BY <1>2, <1>a, <2>1, NoAnswerYet DEF post, env, net, Typed
  <2>3. TimersHold'
    BY <1>2, <1>a, <2>1 DEF post, env, net, TimersHold, Typed, Cli
  <2>4. Agreed'
    BY <1>2, <1>a, <2>1 DEF post, env, net, Agreed, Cli, HandshakeDone, Offered, Groupless, pqc, curves, Listed
  <2>5. QED
    BY <2>1, <2>2, <2>3, <2>4, NoAnswerYet DEF IndInv
<1>3. CASE adapter_dies
  BY <1>3, FailureType, AnswerKeeps DEF adapter_dies, Stage
<1>4. CASE wedges
  <2>1. phase # "done" /\ phase' = "wedged" /\ UNCHANGED answer
    BY <1>4 DEF wedges
  <2>2. Typed'
    BY <1>4, <1>a, <2>1, NoAnswerYet DEF wedges, env, net, time, Typed
  <2>3. TimersHold'
    BY <1>4, <1>a, <2>1 DEF wedges, env, time, TimersHold, Typed, Cli
  <2>4. Agreed'
    BY <1>4, <1>a, <2>1 DEF wedges, env, net, Agreed, Cli, HandshakeDone, Offered, Groupless, pqc, curves, Listed
  <2>5. QED
    BY <2>1, <2>2, <2>3, <2>4, NoAnswerYet DEF IndInv
<1>5. CASE gives_up
  <2>1. clock >= Outer /\ lost' \in BOOLEAN
    BY <1>5, <1>a DEF gives_up, Typed
  <2>2. QED
    BY <1>5, <2>1, FailureType, AnswerKeeps DEF gives_up, Stage
<1>6. CASE not_implemented
  <2>1. ~HandshakeDone /\ phase = "send" /\ lost' \in BOOLEAN
    BY <1>6, <1>a DEF not_implemented, Agreed, Typed
  <2>2. QED
    BY <1>6, <2>1, BuildType, AnswerKeeps DEF not_implemented, KeyExchange
<1>7. CASE launch_fails
  BY <1>7, FailureType, AnswerKeeps DEF launch_fails, Stage
<1>8. CASE launch
  <2>1. phase = "spawn" /\ phase' = "dial" /\ UNCHANGED answer
    BY <1>8 DEF launch
  <2>2. Typed'
    BY <1>8, <1>a, <2>1, NoAnswerYet DEF launch, env, net, Typed
  <2>3. TimersHold'
    BY <1>8, <1>a, <2>1 DEF launch, env, TimersHold, Typed, Agreed, Cli
  <2>4. Agreed'
    BY <1>8, <1>a, <2>1 DEF launch, env, net, Agreed, Cli, HandshakeDone, Offered, Groupless, pqc, curves, Listed
  <2>5. QED
    BY <2>1, <2>2, <2>3, <2>4, NoAnswerYet DEF IndInv
<1>9. CASE connected
  <2>1. phase = "dial" /\ phase' = "handshake" /\ UNCHANGED answer
    BY <1>9 DEF connected
  <2>2. Typed'
    BY <1>9, <1>a, <2>1, NoAnswerYet DEF connected, env, Typed
  <2>3. TimersHold'
    BY <1>9, <1>a, <2>1 DEF connected, env, TimersHold, Typed, Cli
  <2>4. Agreed'
    BY <1>9, <1>a, <2>1 DEF connected, env, Agreed, Cli, HandshakeDone, curves, Listed
  <2>5. QED
    BY <2>1, <2>2, <2>3, <2>4, NoAnswerYet DEF IndInv
<1>b. ASSUME NEW r \in Response, r.failed_stage # "none", phase \in {"dial", "handshake", "http"},
             ClientEnds(r), UNCHANGED <<env, group, time, lost>>, alerted' \in BOOLEAN,
             reached' \in {"none", "tcp", "tls", "http"}, HandshakeDone' <=> HandshakeDone,
             r.handshake_success <=> HandshakeDone, r.group \in {group, None}
      PROVE  IndInv'
  <2>1. CASE Cli
    <3>1. phase' = "exit" /\ UNCHANGED answer /\ phase # "done"
      BY <1>b, <2>1 DEF ClientEnds
    <3>2. Typed'
      BY <1>b, <1>a, <3>1, NoAnswerYet DEF env, time, Typed
    <3>3. TimersHold'
      BY <1>b, <1>a, <3>1 DEF env, time, TimersHold, Cli
    <3>4. Agreed'
      BY <1>b, <1>a, <2>1, <3>1 DEF env, Agreed, Cli, Offered, Groupless, pqc, curves, Listed
    <3>5. QED
      BY <3>1, <3>2, <3>3, <3>4, NoAnswerYet DEF IndInv
  <2>2. CASE ~Cli
    <3>1. phase' = "done" /\ answer' = r
      BY <1>b, <2>2 DEF ClientEnds, Answers
    <3>2. Typed'
      BY <1>b, <1>a, <3>1 DEF env, time, Typed
    <3>3. TimersHold'
      BY <1>b, <1>a, <3>1 DEF env, time, TimersHold, Cli
    <3>4. Agreed'
      BY <1>b, <1>a, <2>2, <3>1 DEF env, Agreed, Cli, Offered, Groupless, pqc, curves, Listed
    <3>5. NoFalseGreen' /\ RedOnlyByTimeout'
      BY <1>b, <3>1 DEF NoFalseGreen, RedOnlyByTimeout
    <3>6. QED
      BY <3>2, <3>3, <3>4, <3>5 DEF IndInv
  <2>3. QED
    BY <2>1, <2>2
<1>c. phase \in {"dial", "handshake"} => ~HandshakeDone
  BY <1>a DEF Agreed
<1>d. phase = "http" => HandshakeDone
  BY <1>a DEF Agreed, HandshakeDone
<1>10. CASE refused
  <2>1. HandshakeDone' <=> HandshakeDone
    BY <1>10 DEF refused, net, HandshakeDone
  <2>2. alerted' \in BOOLEAN /\ reached' \in {"none", "tcp", "tls", "http"}
    BY <1>10, <1>a DEF refused, net, Typed
  <2>3. dial_failure.group = None
    BY DEF dial_failure
  <2>4. QED
    BY <1>10, <1>b, <1>c, <2>1, <2>2, <2>3, RefusalType DEF refused, net
<1>11. ASSUME NEW g \in KeyExchange, negotiates(g) PROVE IndInv'
  <2>1. phase = "handshake" /\ phase' = "http" /\ UNCHANGED answer
    BY <1>11 DEF negotiates
  <2>2. Typed'
    BY <1>11, <1>a, <2>1, NoAnswerYet DEF negotiates, env, time, Typed
  <2>3. TimersHold'
    BY <1>11, <1>a, <2>1 DEF negotiates, env, time, TimersHold, Cli
  <2>4. Agreed'
    BY <1>11, <1>a, <2>1 DEF negotiates, env, Agreed, Cli, HandshakeDone, Offered, Groupless, pqc, curves, Listed
  <2>5. QED
    BY <2>1, <2>2, <2>3, <2>4, NoAnswerYet DEF IndInv
<1>12. CASE rejects
  <2>1. HandshakeDone' <=> HandshakeDone
    BY <1>12 DEF rejects, HandshakeDone
  <2>2. alerted' \in BOOLEAN /\ reached' \in {"none", "tcp", "tls", "http"}
    BY <1>12, <1>a DEF rejects, Typed
  <2>3. PICK r \in Response : /\ r = build_response(FALSE, None, alerted', FALSE)
                              /\ r.failed_stage # "none"
                              /\ ~r.handshake_success
                              /\ r.group = None
    BY <2>2, BuildType DEF KeyExchange
  <2>4. ClientEnds(r) /\ phase = "handshake" /\ UNCHANGED <<env, group, time, lost>>
    BY <1>12, <2>3 DEF rejects
  <2>5. QED
    BY <1>b, <1>c, <2>1, <2>2, <2>3, <2>4
<1>13. CASE responds
  <2>1. HandshakeDone' /\ HandshakeDone
    BY <1>13, <1>d DEF responds, HandshakeDone
  <2>2. /\ alerted' \in BOOLEAN
        /\ reached' \in {"none", "tcp", "tls", "http"}
        /\ group \in KeyExchange
    BY <1>13, <1>a DEF responds, Typed
  <2>3. PICK h \in BOOLEAN : h = (reached' = "http")
    OBVIOUS
  <2>4. PICK r \in Response : /\ r = build_response(TRUE, group, FALSE, h)
                              /\ r.failed_stage # "none"
                              /\ r.handshake_success
                              /\ r.group = group
    BY <2>2, BuildType
  <2>5. ClientEnds(r)
    BY <1>13, <2>3, <2>4 DEF responds
  <2>6. phase = "http" /\ UNCHANGED <<env, group, time, lost>>
    BY <1>13 DEF responds
  <2>7. QED
    BY <1>b, <2>1, <2>2, <2>4, <2>5, <2>6
<1>14. CASE parse
  <2>1. PICK out \in Outputs :
          Answers(build_response(handshake_success(out), negotiated_group(out),
                                 parse_alert(out), parse_http(out)))
    BY <1>14 DEF parse
  <2>2. phase = "exit" /\ UNCHANGED <<env, net, time>> /\ lost' \in BOOLEAN
    BY <1>14, <1>a DEF parse, Typed
  <2>3. PICK ok \in BOOLEAN, g \in KeyExchange, alert \in BOOLEAN, h \in BOOLEAN :
          /\ ok = handshake_success(out) /\ g = negotiated_group(out)
          /\ alert = parse_alert(out) /\ h = parse_http(out)
    BY <2>2, ReadRight DEF handshake_success, parse_alert, parse_http
  <2>4. (ok <=> HandshakeDone) /\ (ok => g \in {group, None})
    BY <2>2, <2>3, ReadRight
  <2>5. PICK r \in Response : /\ r = build_response(ok, g, alert, h)
                              /\ r.failed_stage # "none"
                              /\ r.handshake_success = ok
                              /\ r.group = g
    BY <2>3, BuildType
  <2>6. Answers(r)
    BY <2>1, <2>3, <2>5
  <2>7. QED
    BY <2>2, <2>4, <2>5, <2>6, AnswerKeeps
<1>15. CASE cli_times_out
  <2>1. clock >= Timeout /\ lost' \in BOOLEAN
    BY <1>15, <1>a DEF cli_times_out, TimersHold, Typed
  <2>2. QED
    BY <1>15, <2>1, FailureType, AnswerKeeps DEF cli_times_out, Stage
<1>16. CASE go_times_out
  <2>1. CASE refused
    BY <2>1, <1>10
  <2>2. CASE /\ phase = "handshake"
             /\ Answers(build_response(FALSE, None, FALSE, FALSE))
             /\ UNCHANGED <<env, net, time, lost>>
    <3>1. lost' \in BOOLEAN
      BY <2>2, <1>a DEF Typed
    <3>2. QED
      BY <2>2, <3>1, <1>c, BuildType, AnswerKeeps DEF KeyExchange
  <2>3. CASE /\ phase = "http"
             /\ reached' \in {"tls", "http"}
             /\ Answers(build_response(TRUE, group, FALSE, reached' = "http"))
             /\ UNCHANGED <<env, group, alerted, time, lost>>
    <3>1. ~Cli
      BY <1>16 DEF go_times_out
    <3>2. HandshakeDone' /\ HandshakeDone
      BY <2>3, <1>d DEF HandshakeDone
    <3>3. /\ alerted' \in BOOLEAN
          /\ reached' \in {"none", "tcp", "tls", "http"}
          /\ group \in KeyExchange
      BY <2>3, <1>a DEF Typed
    <3>4. ClientEnds(build_response(TRUE, group, FALSE, reached' = "http"))
      BY <2>3, <3>1 DEF ClientEnds
    <3>5. PICK h \in BOOLEAN : h = (reached' = "http")
      OBVIOUS
    <3>6. PICK r \in Response : /\ r = build_response(TRUE, group, FALSE, h)
                                /\ r.failed_stage # "none"
                                /\ r.handshake_success
                                /\ r.group = group
      BY <3>3, BuildType
    <3>7. ClientEnds(r)
      BY <3>4, <3>5, <3>6
    <3>8. QED
      BY <2>3, <3>2, <3>3, <3>6, <3>7, <1>b
  <2>4. QED
    BY <1>16, <2>1, <2>2, <2>3 DEF go_times_out
<1>17. CASE Tick
  <2>1. phase # "done" /\ phase' # "done" /\ UNCHANGED <<phase, answer>>
    BY <1>17 DEF Tick
  <2>2. Typed'
    BY <1>17, <1>a, <2>1, NoAnswerYet DEF Tick, env, net, Typed
  <2>3. TimersHold'
    BY <1>17, <1>a, <2>1 DEF Tick, env, TimersHold, Typed, Cli
  <2>4. Agreed'
    BY <1>17, <1>a, <2>1 DEF Tick, env, net, Agreed, Cli, HandshakeDone, Offered, Groupless, pqc, curves, Listed
  <2>5. QED
    BY <2>1, <2>2, <2>3, <2>4, NoAnswerYet DEF IndInv
<1>18. CASE UNCHANGED vars
  <2>1. UNCHANGED <<backend, kem_groups, phase, reached, group, alerted, clock, deadline,
                    dialled, lost, answer>>
    BY <1>18 DEF vars, env, net, time
  <2>2. Typed' /\ TimersHold'
    BY <1>a, <2>1 DEF Typed, TimersHold, Cli
  <2>3. Agreed'
    BY <1>a, <2>1 DEF Agreed, Cli, HandshakeDone, Offered, Groupless, pqc, curves, Listed
  <2>4. NoFalseGreen' /\ RedOnlyByTimeout'
    BY <2>1 DEF IndInv, NoFalseGreen, RedOnlyByTimeout, HandshakeDone
  <2>5. QED
    BY <2>2, <2>3, <2>4 DEF IndInv
<1>19. QED
  BY <1>1, <1>2, <1>3, <1>4, <1>5, <1>6, <1>7, <1>8, <1>9, <1>10, <1>11, <1>12, <1>13,
     <1>14, <1>15, <1>16, <1>17, <1>18 DEF Next

-----------------------------------------------------------------------------

LEMMA Invariance == Spec => []IndInv
BY InitInd, StepInd, PTL DEF Spec

\* Requests, clocks and answers have their types, and only finished probes have
\* an answer with a stage.
THEOREM TypeCorrect == Spec => []TypeOK
<1>1. IndInv => TypeOK
  BY TypedIsTypeOK DEF IndInv
<1>2. QED
  BY <1>1, Invariance, PTL

\* Success is only read out of the output of a handshake that was completed, with
\* its group or none, whatever the server and the timeouts do and whichever of
\* the lines that openssl, bssl and the client of wolfSSL know are printed.
THEOREM GreenIsGreen == Spec => []NoFalseGreen
<1>1. IndInv => NoFalseGreen
  BY DEF IndInv
<1>2. QED
  BY <1>1, Invariance, PTL

\* A completed handshake that is reported as failed was hit by a timeout or by a
\* lost process.
THEOREM RedNeedsTimeout == Spec => []RedOnlyByTimeout
<1>1. IndInv => RedOnlyByTimeout
  BY DEF IndInv
<1>2. QED
  BY <1>1, Invariance, PTL

\* A success that is reported used a group of the request.
LEMMA PinnedByInv == ASSUME IndInv PROVE PinnedGroup
<1> SUFFICES ASSUME answer.handshake_success, kem_groups # << >>,
                    backend = "wolfssl" => pqc
             PROVE  group \in Listed \cup Groupless
  BY DEF PinnedGroup
<1>1. HandshakeDone /\ group \in Offered \cup Groupless /\ backend \in Backend /\ kem_groups \in Seq(Group)
  BY DEF IndInv, NoFalseGreen, Agreed, Typed
<1>2. CASE backend \in {"openssl", "boringssl"}
  BY <1>1, <1>2 DEF Offered
<1>3. CASE backend = "wolfssl"
  <2>1. group = kem_groups[1]
    BY <1>1, <1>3 DEF Offered, Groupless
  <2>2. 1 \in DOMAIN kem_groups
    BY <1>1
  <2>3. QED
    BY <2>1, <2>2 DEF Listed
<1>4. CASE backend = "go"
  <2>1. curves # {}
    BY <1>1, <1>4 DEF IndInv, Agreed, Cli
  <2>2. QED
    BY <1>1, <1>4, <2>1 DEF Offered, curves
<1>5. QED
  BY <1>1, <1>2, <1>3, <1>4 DEF Backend

\* The adapters pin the group that they are asked for, or refuse; a server can
\* still make openssl and bssl do without a group.
THEOREM GroupPinned == Spec => []PinnedGroup
BY PinnedByInv, Invariance, PTL

\* The worker's timeout hits an adapter that works only if it is not the larger
\* one, or if the Go adapter spent the difference connecting.
LEMMA OuterByInv == ASSUME IndInv PROVE OuterBoundForWedged
<1> SUFFICES ASSUME phase \notin {"send", "done"}, clock = Outer, ~lost
             PROVE  Timeout >= Outer \/ (~Cli /\ dialled + Timeout >= Outer)
  BY DEF OuterBoundForWedged
<1>1. clock <= deadline /\ deadline = IF Cli THEN Timeout ELSE dialled + Timeout
  BY DEF IndInv, TimersHold
<1>2. clock \in Nat /\ dialled \in Nat /\ Timeout \in Nat /\ Outer \in Nat
  BY AdapterAssumption DEF IndInv, Typed
<1>3. CASE Cli
  BY <1>1, <1>2, <1>3
<1>4. CASE ~Cli
  BY <1>1, <1>2, <1>4
<1>5. QED
  BY <1>3, <1>4

\* The worker cuts off only what hangs, but for the cases of the lemma.
THEOREM OuterBound == Spec => []OuterBoundForWedged
BY OuterByInv, Invariance, PTL

-----------------------------------------------------------------------------
(***************************************************************************)
(* From the request to the cell: the path of CellPath.                     *)
(***************************************************************************)

\* The row that a job was made for.
RowOf(j) == \E r \in subtasks : r.id = j.subtask /\ r.group = j.group /\ r.sig = j.sig

\* What create_test has found out when it inserts the rows, and what stays true
\* of them while the seeder goes on.
Checked ==
    /\ algorithms \subseteq {SeedFile[i] : i \in DOMAIN SeedFile}
    /\ body.plugin \in Plugin
    /\ step \in {"sig_algs", "insert"} => Unknown("kem_group", groups) = {}
    /\ step = "insert" => Unknown("sig_alg", sig_algs) = {}
    /\ \A r \in subtasks : /\ <<"kem_group", r.group>> \in algorithms
                           /\ <<"sig_alg", r.sig>> \in algorithms
    /\ \A r, q \in subtasks : r.id = q.id => r = q
    /\ step # "done" => jobs = {}
    /\ \A j \in jobs : j.adapter \in Backend /\ RowOf(j)

\* What the handler knows of its job and of its adapter's list.
Handling ==
    /\ job = NoJob => /\ Fresh
                      /\ cache = {} /\ ~asking /\ ~others /\ verdict = "pending"
    /\ job \notin {NoJob, KemProbe} => RowOf(job) /\ kem_groups = <<job.group>>
    /\ cache \subseteq Lists
    /\ (asking \/ verdict # "pending") => phase = "done" /\ job \notin {NoJob, KemProbe}
    /\ asking => verdict = "pending"

\* What a colour stands for.
Coloured == verdict = "passed" => answer.handshake_success

CellInv == IndInv /\ Checked /\ Handling /\ Coloured

\* Rows are found by their id.
LEMMA RowsById == \A r, q \in Rows : r.id = q.id => r = q
<1> SUFFICES ASSUME NEW r \in Rows, NEW q \in Rows, r.id = q.id PROVE r = q
  OBVIOUS
<1>1. PICK g \in DOMAIN groups, s \in DOMAIN sig_algs :
        r = [id |-> <<g, s>>, ordinal |-> ordinal(g, s), group |-> groups[g], sig |-> sig_algs[s]]
  BY DEF Rows
<1>2. PICK h \in DOMAIN groups, t \in DOMAIN sig_algs :
        q = [id |-> <<h, t>>, ordinal |-> ordinal(h, t), group |-> groups[h], sig |-> sig_algs[t]]
  BY DEF Rows
<1>3. <<g, s>> = <<h, t>>
  BY <1>1, <1>2
<1>4. g = h /\ s = t
  BY <1>3
<1>5. QED BY <1>1, <1>2, <1>4

\* The jobs that go out are those of rows, whatever order RETURNING has.
LEMMA JobsOfRows ==
    ASSUME NEW returned \in SetToSeqs(subtasks), NEW k \in Jobs(returned)
    PROVE  RowOf(k)
<1>1. returned \in [1 .. Cardinality(subtasks) -> subtasks]
  BY DEF SetToSeqs
<1>2. PICK i \in DOMAIN returned :
        k = [subtask |-> returned[i].id, group |-> returned[i].group, sig |-> returned[i].sig]
  BY DEF Jobs
<1>3. returned[i] \in subtasks
  BY <1>1
<1>4. QED BY <1>2, <1>3 DEF RowOf

\* The adapters that create_test can name.
LEMMA AdapterType == ASSUME NEW p \in Plugin PROVE adapter_for(p) \in Backend
BY CellAssumption DEF Plugin, adapter_for, Backend

\* The steps of create_test and of the seeder.
LEMMA CheckedStep ==
    ASSUME Checked, [NNext]_nvars
    PROVE  Checked'
<1>1. CASE seed_starts \/ seed_ends
  BY <1>1 DEF seed_starts, seed_ends, Checked, RowOf, Unknown, groups, sig_algs
<1>2. CASE seed_row
  <2>1. algorithms \subseteq algorithms' /\ UNCHANGED <<step, body, subtasks, jobs>>
    BY <1>2 DEF seed_row
  <2>2. algorithms' \subseteq {SeedFile[i] : i \in DOMAIN SeedFile}
    BY <1>2 DEF seed_row, Checked
  <2>3. QED BY <2>1, <2>2 DEF Checked, RowOf, Unknown, groups, sig_algs
<1>3. ASSUME UNCHANGED <<algorithms, subtasks, jobs>>, step # "done", step' \notin {"sig_algs", "insert"},
             body'.plugin \in Plugin
      PROVE  Checked'
  BY <1>3 DEF Checked, RowOf
<1>4. ASSUME Done PROVE step' = "done" /\ body'.plugin \in Plugin
  BY <1>4 DEF Done, NoPost, Plugin
<1>5. ASSUME NEW req \in Posts, post_test(req) PROVE Checked'
  <2>1. req.plugin \in Plugin
    BY NewTestAssumption
  <2>2. UNCHANGED <<algorithms, subtasks, jobs>> /\ step = "idle"
    BY <1>5 DEF post_test, catalogue
  <2>3. CASE Done
    BY <1>3, <1>4, <2>2, <2>3
  <2>4. CASE step' = "groups" /\ body' = req
    BY <1>3, <2>1, <2>2, <2>4
  <2>5. QED BY <1>5, <2>3, <2>4 DEF post_test
<1>6. CASE check_groups
  <2>1. UNCHANGED <<algorithms, subtasks, jobs>> /\ step = "groups"
    BY <1>6 DEF check_groups, reject_unknown, catalogue
  <2>2. CASE Done
    BY <1>3, <1>4, <2>1, <2>2
  <2>3. CASE step' = "sig_algs" /\ UNCHANGED body /\ Unknown("kem_group", groups) = {}
    BY <2>1, <2>3 DEF Checked, RowOf, Unknown, groups
  <2>4. QED BY <1>6, <2>2, <2>3 DEF check_groups, reject_unknown
<1>7. CASE check_sig_algs
  <2>1. UNCHANGED <<algorithms, subtasks, jobs>> /\ step = "sig_algs"
    BY <1>7 DEF check_sig_algs, reject_unknown, catalogue
  <2>2. CASE Done
    BY <1>3, <1>4, <2>1, <2>2
  <2>3. CASE step' = "insert" /\ UNCHANGED body /\ Unknown("sig_alg", sig_algs) = {}
    BY <2>1, <2>3 DEF Checked, RowOf, Unknown, groups, sig_algs
  <2>4. QED BY <1>7, <2>2, <2>3 DEF check_sig_algs, reject_unknown
<1>8. CASE insert_test
  <2>1. /\ step = "insert" /\ step' = "queue"
        /\ subtasks' = Rows
        /\ UNCHANGED <<algorithms, body, jobs>>
    BY <1>8 DEF insert_test, catalogue
  <2>2. Unknown("kem_group", groups) = {} /\ Unknown("sig_alg", sig_algs) = {} /\ jobs = {}
    BY <2>1 DEF Checked
  <2>3. ASSUME NEW r \in Rows
        PROVE  <<"kem_group", r.group>> \in algorithms /\ <<"sig_alg", r.sig>> \in algorithms
    <3>1. PICK g \in DOMAIN groups, s \in DOMAIN sig_algs :
            r.group = groups[g] /\ r.sig = sig_algs[s]
      BY <2>3 DEF Rows
    <3>2. QED BY <2>2, <3>1 DEF Unknown, Range
  <2>4. \A r, q \in subtasks' : r.id = q.id => r = q
    BY <2>1, RowsById
  <2>5. QED BY <2>1, <2>2, <2>3, <2>4 DEF Checked
<1>9. CASE enqueue_probes
  <2>1. PICK returned \in SetToSeqs(subtasks) : \E sent \in SUBSET Jobs(returned) :
          jobs' = {[adapter |-> adapter_for(body.plugin), subtask |-> k.subtask,
                    group |-> k.group, sig |-> k.sig] : k \in sent}
    BY <1>9 DEF enqueue_probes
  <2>2. PICK sent \in SUBSET Jobs(returned) :
          jobs' = {[adapter |-> adapter_for(body.plugin), subtask |-> k.subtask,
                    group |-> k.group, sig |-> k.sig] : k \in sent}
    BY <2>1
  <2>3. ASSUME NEW j \in jobs' PROVE j.adapter \in Backend /\ RowOf(j)
    <3>1. PICK k \in sent : j = [adapter |-> adapter_for(body.plugin), subtask |-> k.subtask,
                                 group |-> k.group, sig |-> k.sig]
      BY <2>2
    <3>2. RowOf(k)
      BY <3>1, JobsOfRows
    <3>3. QED BY <3>1, <3>2, AdapterType DEF Checked, RowOf
  <2>4. UNCHANGED <<algorithms, subtasks>> /\ step' = "done" /\ body'.plugin \in Plugin
    BY <1>4, <1>9 DEF enqueue_probes, catalogue
  <2>5. QED BY <2>3, <2>4 DEF Checked, RowOf
<1>10. CASE create_fails
  BY <1>3, <1>4, <1>10 DEF create_fails, catalogue
<1>11. CASE UNCHANGED nvars
  BY <1>11 DEF nvars, catalogue, Checked, RowOf, Unknown, groups, sig_algs
<1>12. QED
  BY <1>1, <1>2, <1>5, <1>6, <1>7, <1>8, <1>9, <1>10, <1>11 DEF NNext

\* A probe that has its answer is over.
LEMMA DoneIsDone == ASSUME phase = "done" PROVE ~Next
BY DEF Next, unreachable, post, adapter_dies, wedges, gives_up, not_implemented, launch_fails,
       launch, connected, refused, negotiates, rejects, responds, parse, cli_times_out,
       go_times_out, Tick

\* The adapter is asked: nothing has happened yet, and now it is known by whom
\* and for which groups.
LEMMA AskedInd ==
    ASSUME IndInv, Fresh, UNCHANGED <<phase, net, time, lost, answer>>,
           backend' \in Backend, kem_groups' \in Seq(Group)
    PROVE  IndInv'
<1>1. UNCHANGED <<phase, reached, group, alerted, clock, deadline, dialled, lost, answer>>
  BY DEF net, time
<1>2. phase = "send" /\ reached = "none" /\ answer = NoAnswer
  BY DEF Fresh
<1>3. Typed'
  BY <1>1 DEF IndInv, Typed
<1>4. TimersHold'
  BY <1>1, <1>2 DEF IndInv, TimersHold
<1>5. Agreed'
  BY <1>1, <1>2 DEF Agreed, HandshakeDone
<1>6. NoFalseGreen' /\ RedOnlyByTimeout'
  BY <1>1, <1>2 DEF NoFalseGreen, RedOnlyByTimeout, NoAnswer
<1>7. QED BY <1>3, <1>4, <1>5, <1>6 DEF IndInv

\* The lists that an adapter may advertise are its own.
LEMMA ListsFrame == ASSUME UNCHANGED backend PROVE Lists' = Lists
BY DEF Lists

\* The handler takes a job, or a KEM run asks.
LEMMA ProbeStep ==
    ASSUME CellInv, NEW b \in Backend, NEW list \in Seq(Group), Probe(b, list),
           jobs' \subseteq jobs,
           job' \notin {NoJob, KemProbe} => RowOf(job') /\ list = <<job'.group>>
    PROVE  CellInv'
<1>1. /\ job = NoJob /\ backend' = b /\ kem_groups' = list
      /\ UNCHANGED <<phase, net, time, lost, answer>>
      /\ UNCHANGED <<algorithms, step, body, subtasks, cache, asking, others, verdict>>
  BY DEF Probe, catalogue
<1>2. Fresh /\ cache = {} /\ ~asking /\ ~others /\ verdict = "pending"
  BY <1>1 DEF CellInv, Handling
<1>3. IndInv'
  BY <1>1, <1>2, AskedInd DEF CellInv
<1>4. Checked'
  BY <1>1 DEF CellInv, Checked, RowOf, Unknown, groups, sig_algs
<1>5. Fresh'
  BY <1>1, <1>2 DEF Fresh, net, time
<1>6. Handling'
  BY <1>1, <1>2, <1>5 DEF Handling, RowOf
<1>7. Coloured'
  BY <1>1, <1>2 DEF Coloured
<1>8. QED BY <1>3, <1>4, <1>6, <1>7 DEF CellInv

\* The verdict, by a list of the adapter or without.
LEMMA VerdictStep ==
    ASSUME CellInv, Classifying, UNCHANGED <<vars, nvars, job, others>>, ~asking',
           cache' \subseteq Lists,
           \/ \E list \in Lists : verdict' = classify(list)
           \/ verdict' = IF answer.handshake_success THEN "passed" ELSE "failed"
    PROVE  CellInv'
<1>1. /\ UNCHANGED <<backend, kem_groups, phase, answer, subtasks, job, others>>
      /\ Lists' = Lists
  BY ListsFrame DEF vars, env, nvars
<1>2. IndInv'
  BY StepInd DEF CellInv
<1>3. Checked'
  BY CheckedStep DEF CellInv
<1>4. verdict' # "pending"
  BY DEF classify
<1>5. Handling'
  BY <1>1, <1>4 DEF CellInv, Handling, Classifying, RowOf
<1>6. Coloured'
  BY <1>1 DEF Coloured, classify
<1>7. QED BY <1>2, <1>3, <1>5, <1>6 DEF CellInv

\* The group of a row is one that adapters can be asked for, and its signature
\* algorithm is no group.
LEMMA RowTypes ==
    ASSUME Checked, NEW j, RowOf(j)
    PROVE  j.group \in Group /\ j.sig \notin Group
<1>1. PICK r \in subtasks : r.group = j.group /\ r.sig = j.sig
  BY DEF RowOf
<1>2. <<"kem_group", j.group>> \in algorithms /\ <<"sig_alg", j.sig>> \in algorithms
  BY <1>1 DEF Checked
<1>3. PICK i \in DOMAIN SeedFile : SeedFile[i] = <<"kem_group", j.group>>
  BY <1>2 DEF Checked
<1>4. PICK k \in DOMAIN SeedFile : SeedFile[k] = <<"sig_alg", j.sig>>
  BY <1>2 DEF Checked
<1>5. /\ SeedFile[i][1] = "kem_group" /\ SeedFile[i][2] = j.group
      /\ SeedFile[k][1] = "sig_alg" /\ SeedFile[k][2] = j.sig
  BY <1>3, <1>4
<1>6. QED BY <1>5, CellAssumption

\* The steps of a handler, of its probe and of the registry.
LEMMA CellStep ==
    ASSUME CellInv, [CNext]_allvars
    PROVE  CellInv'
<1>a. IndInv /\ Checked /\ Handling /\ Coloured
  BY DEF CellInv
<1>1. CASE job = NoJob /\ NNext /\ UNCHANGED <<vars, cvars>>
  <2>1. UNCHANGED <<backend, kem_groups, phase, net, time, lost, answer>>
    BY <1>1 DEF vars, env
  <2>2. UNCHANGED <<job, cache, asking, others, verdict>>
    BY <1>1 DEF cvars
  <2>3. IndInv' /\ Checked'
    BY <1>1, <1>a, StepInd, CheckedStep
  <2>4. Handling'
    BY <1>1, <1>a, <2>1, <2>2, ListsFrame DEF Handling, Fresh, net, time
  <2>5. QED BY <1>a, <2>1, <2>2, <2>3, <2>4 DEF CellInv, Coloured
<1>2. ASSUME NEW j \in jobs, handle(j) PROVE CellInv'
  <2>1. j.adapter \in Backend /\ RowOf(j) /\ j.group \in Group
    BY <1>2, <1>a, RowTypes DEF Checked
  <2>2. <<j.group>> \in Seq(Group)
    BY <2>1
  <2>3. Probe(j.adapter, <<j.group>>) /\ job' = j /\ jobs' \subseteq jobs
    BY <1>2 DEF handle
  <2>4. QED BY <2>1, <2>2, <2>3, ProbeStep
<1>3. CASE kem_handle
  <2>1. PICK b \in Backend, list \in Requests : Probe(b, list)
    BY <1>3 DEF kem_handle
  <2>2. list \in Seq(Group)
    BY AdapterAssumption
  <2>3. job' = KemProbe /\ jobs' = jobs
    BY <1>3 DEF kem_handle
  <2>4. QED BY <2>1, <2>2, <2>3, ProbeStep
<1>4. CASE job # NoJob /\ Next /\ UNCHANGED <<nvars, cvars>>
  <2>1. phase # "done"
    BY <1>4, DoneIsDone
  <2>2. UNCHANGED env
    BY <1>4 DEF Next, unreachable, post, adapter_dies, wedges, gives_up, not_implemented,
       launch_fails, launch, connected, refused, negotiates, rejects, responds, parse,
       cli_times_out, go_times_out, Tick
  <2>3. UNCHANGED <<job, cache, asking, others, verdict>>
    BY <1>4 DEF cvars
  <2>4. ~asking /\ verdict = "pending"
    BY <1>a, <2>1 DEF Handling
  <2>5. IndInv' /\ Checked'
    BY <1>4, <1>a, StepInd, CheckedStep
  <2>6. UNCHANGED <<backend, kem_groups, subtasks>>
    BY <1>4, <2>2 DEF env, nvars
  <2>7. Handling'
    BY <1>4, <1>a, <2>3, <2>4, <2>6, ListsFrame DEF Handling, RowOf
  <2>8. Coloured'
    BY <2>3, <2>4 DEF Coloured
  <2>9. QED BY <2>5, <2>7, <2>8 DEF CellInv
<1>5. CASE cached
  <2>1. PICK list \in cache : verdict' = classify(list)
    BY <1>5 DEF cached
  <2>2. list \in Lists /\ cache \subseteq Lists
    BY <1>a, <2>1 DEF Handling
  <2>3. QED BY <1>5, <2>1, <2>2, VerdictStep DEF cached
<1>6. CASE fetched
  <2>1. PICK list \in Lists : cache' = {list} /\ verdict' = classify(list)
    BY <1>6 DEF fetched
  <2>2. Classifying
    BY <1>6, <1>a DEF fetched, Handling, Classifying
  <2>3. UNCHANGED <<vars, nvars, job, others>> /\ ~asking'
    BY <1>6 DEF fetched
  <2>4. cache' \subseteq Lists
    BY <2>1
  <2>5. QED BY <2>1, <2>2, <2>3, <2>4, VerdictStep
<1>7. CASE fetch_fails
  <2>1. Classifying
    BY <1>7, <1>a DEF fetch_fails, Handling, Classifying
  <2>2. /\ UNCHANGED <<vars, nvars, job, others>> /\ ~asking'
        /\ verdict' = IF answer.handshake_success THEN "passed" ELSE "failed"
    BY <1>7, <2>1 DEF fetch_fails
  <2>3. cache' \subseteq Lists
    BY <1>7, <1>a DEF fetch_fails, Handling
  <2>4. QED BY <2>1, <2>2, <2>3, VerdictStep
<1>8. ASSUME UNCHANGED <<vars, nvars, job, verdict>>, cache' \subseteq Lists,
             asking' => asking \/ Classifying,
             (cache' = cache /\ asking' = asking /\ others' = others) \/ job # NoJob
      PROVE  CellInv'
  <2>1. UNCHANGED <<backend, kem_groups, phase, net, time, lost, answer, subtasks>>
    BY <1>8 DEF vars, env, nvars
  <2>2. IndInv' /\ Checked'
    BY <1>8, <1>a, StepInd, CheckedStep
  <2>3. Handling'
    BY <1>8, <1>a, <2>1, ListsFrame DEF Handling, RowOf, Fresh, Classifying, net, time
  <2>4. Coloured'
    BY <1>8, <1>a, <2>1 DEF Coloured
  <2>5. QED BY <2>2, <2>3, <2>4 DEF CellInv
<1>9. CASE missed
  BY <1>8, <1>9, <1>a DEF missed, Classifying, Handling
<1>10. CASE other_missed
  BY <1>8, <1>10, <1>a DEF other_missed, Handling
<1>11. CASE other_fetched
  <2>1. job # NoJob /\ cache' \subseteq Lists
    BY <1>11, <1>a DEF other_fetched, Handling
  <2>2. QED BY <1>8, <1>11, <2>1 DEF other_fetched
<1>12. CASE UNCHANGED allvars
  BY <1>8, <1>12, <1>a DEF allvars, cvars, Handling
<1>13. QED
  BY <1>1, <1>2, <1>3, <1>4, <1>5, <1>6, <1>7, <1>9, <1>10, <1>11, <1>12 DEF CNext

\* Before the first request.
LEMMA CellStart == CInit => CellInv
<1> SUFFICES ASSUME CInit PROVE CellInv
  OBVIOUS
<1>1. << >> \in Seq(Kinds) /\ << >> \in Seq(Group)
  OBVIOUS
<1>2. /\ Fresh /\ answer \in Response /\ answer.failed_stage = "none"
      /\ ~answer.handshake_success
  BY <1>1 DEF CInit, Fresh, NoAnswer, Response, KeyExchange
<1>a. backend \in Backend /\ kem_groups \in Seq(Group)
  BY <1>1, CellAssumption DEF CInit
<1>3. Typed
  BY <1>2, <1>a DEF Fresh, Typed, KeyExchange
<1>4. TimersHold
  BY <1>2, AdapterAssumption DEF Fresh, TimersHold
<1>5. Agreed /\ NoFalseGreen /\ RedOnlyByTimeout
  BY <1>2 DEF Fresh, Agreed, NoFalseGreen, RedOnlyByTimeout, HandshakeDone
<1>6. Checked
  BY DEF CInit, NInit, Checked, NoPost, Plugin
<1>7. Handling /\ Coloured
  BY <1>2 DEF CInit, Handling, Coloured
<1>8. QED BY <1>3, <1>4, <1>5, <1>6, <1>7 DEF CellInv, IndInv

LEMMA CellInvariance == CSpec => []CellInv
BY CellStart, CellStep, PTL DEF CSpec

\* What is proved of a probe holds of every probe that a test or a KEM run
\* starts: the worker hands the adapter a request as AdapterProbe expects it.
THEOREM CellProbeCorrect ==
    CSpec => [](NoFalseGreen /\ RedOnlyByTimeout /\ PinnedGroup /\ OuterBoundForWedged)
<1>1. CellInv => NoFalseGreen /\ RedOnlyByTimeout /\ PinnedGroup /\ OuterBoundForWedged
  BY PinnedByInv, OuterByInv DEF CellInv, IndInv
<1>2. QED BY <1>1, CellInvariance, PTL

\* The row that Cell finds is the one that the job was made for.
LEMMA CellIsRow ==
    ASSUME CellInv, verdict # "pending"
    PROVE  Cell.group = job.group /\ Cell.sig = job.sig /\ kem_groups = <<job.group>>
<1>1. RowOf(job) /\ kem_groups = <<job.group>>
  BY DEF CellInv, Handling
<1>2. PICK r \in subtasks : r.id = job.subtask /\ r.group = job.group /\ r.sig = job.sig
  BY <1>1 DEF RowOf
<1>3. Cell \in subtasks /\ Cell.id = job.subtask
  BY <1>2 DEF Cell
<1>4. Cell = r
  BY <1>2, <1>3 DEF CellInv, Checked
<1>5. QED BY <1>1, <1>2, <1>4

\* A green cell is one of a completed handshake, with no group but that of its
\* row: the pairing of rows and jobs, the pinning of groups and the reading of
\* the output hold together, for every catalogue, request, server and timing.
THEOREM GreenCellCorrect == CSpec => []GreenCell
<1>1. CellInv => GreenCell
  <2> SUFFICES ASSUME CellInv, verdict = "passed"
               PROVE  /\ HandshakeDone
                      /\ answer.group \in {group, None}
                      /\ (backend = "wolfssl" => Cell.group \notin Classical) =>
                            group \in {Cell.group} \cup Groupless
    BY DEF GreenCell
  <2>1. answer.handshake_success /\ Cell.group = job.group /\ kem_groups = <<job.group>>
    BY CellIsRow DEF CellInv, Coloured
  <2>2. IndInv /\ HandshakeDone /\ answer.group \in {group, None}
    BY <2>1 DEF CellInv, IndInv, NoFalseGreen
  <2>3. PinnedGroup
    BY <2>2, PinnedByInv
  <2>4. Listed = {job.group} /\ kem_groups # << >> /\ kem_groups[1] = job.group
    BY <2>1 DEF Listed
  <2>5. QED BY <2>1, <2>2, <2>3, <2>4 DEF PinnedGroup, pqc
<1>2. QED BY <1>1, CellInvariance, PTL

-----------------------------------------------------------------------------
(***************************************************************************)
(* The axes of the matrix                                                  *)
(***************************************************************************)

Less == {p \in Nat \X Nat : p[1] < p[2]}

\* A set of numbers that is not empty has a least member; this is how the proofs
\* below go by induction.
LEMMA LeastMember ==
    ASSUME NEW S, S \subseteq Nat, S # {}
    PROVE  \E n \in S : \A m \in S : n <= m
<1>1. OpToRel(<, Nat) = Less
  BY Zenon DEF OpToRel, Less
<1>2. IsWellFoundedOn(Less, Nat)
  BY <1>1, NatLessThanWellFounded, Zenon
<1>3. PICK n \in S : \A m \in S : <<m, n>> \notin Less
  BY <1>2, WFMin
<1>4. ASSUME NEW m \in S PROVE n <= m
  <2>1. m \in Nat /\ n \in Nat
    OBVIOUS
  <2>2. m < n => <<m, n>> \in Less
    BY <2>1 DEF Less
  <2>3. QED BY <1>3, <2>1, <2>2
<1>5. QED BY <1>4

\* One step of Firsts.
Keep(names, skipped, f, i) ==
    IF i = 0 THEN << >>
    ELSE IF names[i] \in skipped \cup Range(f[i - 1]) THEN f[i - 1]
    ELSE Append(f[i - 1], names[i])

\* The steps of Firsts up to the nth.
Steps(names, skipped, n, f) == f = [i \in 0 .. n |-> Keep(names, skipped, f, i)]

\* The recursion has a solution.
LEMMA StepsExist ==
    ASSUME NEW names, NEW skipped, NEW n \in Nat
    PROVE  \E f : Steps(names, skipped, n, f)
<1> DEFINE Bad == {k \in Nat : ~\E f : Steps(names, skipped, k, f)}
<1>1. SUFFICES ASSUME Bad # {} PROVE FALSE
  OBVIOUS
<1>2. PICK k \in Bad : \A m \in Bad : k <= m
  BY <1>1, LeastMember
<1>3. CASE k = 0
  <2> DEFINE f == [i \in 0 .. 0 |-> << >>]
  <2>1. f = [i \in 0 .. 0 |-> Keep(names, skipped, f, i)]
    BY DEF Keep
  <2>2. QED BY <1>2, <1>3, <2>1 DEF Steps
<1>4. CASE k # 0
  <2>1. k - 1 \in Nat /\ k - 1 \notin Bad
    BY <1>2, <1>4
  <2>2. PICK f : Steps(names, skipped, k - 1, f)
    BY <2>1
  <2> DEFINE last == Keep(names, skipped, f, k)
             g == [i \in 0 .. k |-> IF i < k THEN f[i] ELSE last]
  <2>3. ASSUME NEW i \in 0 .. k PROVE g[i] = Keep(names, skipped, g, i)
    <3>1. CASE i = 0
      <4>1. g[0] = f[0] /\ f[0] = Keep(names, skipped, f, 0)
        BY <1>4, <2>1, <2>2 DEF Steps
      <4>2. QED BY <3>1, <4>1 DEF Keep
    <3>2. CASE i # 0
      <4>1. i - 1 \in 0 .. k - 1 /\ g[i - 1] = f[i - 1]
        BY <3>2, <1>4
      <4>2. Keep(names, skipped, g, i) = Keep(names, skipped, f, i)
        BY <3>2, <4>1 DEF Keep
      <4>3. CASE i = k
        BY <4>2, <4>3
      <4>4. CASE i < k
        <5>1. f[i] = Keep(names, skipped, f, i)
          BY <2>2, <4>4 DEF Steps
        <5>2. QED BY <4>2, <4>4, <5>1
      <4>5. QED BY <4>3, <4>4
    <3>3. QED BY <3>1, <3>2
  <2> HIDE DEF last
  <2>4. g = [i \in 0 .. k |-> Keep(names, skipped, g, i)]
    BY <2>3
  <2>5. Steps(names, skipped, k, g)
    BY <2>4 DEF Steps
  <2>6. QED BY <1>2, <2>5
<1>5. QED BY <1>2, <1>3, <1>4

\* What Firsts returns is its last step.
LEMMA FirstsStep ==
    ASSUME NEW names, NEW skipped, Len(names) \in Nat
    PROVE  \E f : Steps(names, skipped, Len(names), f) /\ Firsts(names, skipped) = f[Len(names)]
<1> DEFINE kept[i \in 0 .. Len(names)] == Keep(names, skipped, kept, i)
<1>1. Firsts(names, skipped) = kept[Len(names)]
  BY Zenon DEF Firsts, Keep
<1>2. kept = [i \in 0 .. Len(names) |-> Keep(names, skipped, kept, i)]
  BY StepsExist DEF Steps
<1>3. QED BY <1>1, <1>2 DEF Steps

\* x comes before the first y.
Before(names, x, y) == \E m \in DOMAIN names : names[m] = x /\ \A l \in 1 .. m : names[l] # y

\* What u is of the first n names.
FirstsOf(names, skipped, n, u) ==
    /\ u \in Seq(Range(names))
    /\ Range(u) = {names[k] : k \in 1 .. n} \ skipped
    /\ \A a, b \in DOMAIN u : a < b => Before(names, u[a], u[b])

\* One more name: skipped, seen before, or new.
LEMMA OneMore ==
    ASSUME NEW names, NEW skipped, NEW n \in Nat, DOMAIN names = 1 .. n, NEW i \in 1 .. n,
           NEW u, FirstsOf(names, skipped, i - 1, u)
    PROVE  /\ names[i] \in skipped \cup Range(u) => FirstsOf(names, skipped, i, u)
           /\ names[i] \notin skipped \cup Range(u) =>
                 FirstsOf(names, skipped, i, Append(u, names[i]))
<1> DEFINE T == Range(names)
           Seen(k) == {names[m] : m \in 1 .. k}
<1>1. 1 .. i = (1 .. i - 1) \cup {i} /\ i \in DOMAIN names /\ 1 .. i - 1 \subseteq DOMAIN names
  OBVIOUS
<1>2. Seen(i) = Seen(i - 1) \cup {names[i]} /\ names[i] \in T
  BY <1>1 DEF Range
<1>3. u \in Seq(T) /\ Range(u) = Seen(i - 1) \ skipped
  BY DEF FirstsOf
<1>4. \A a, b \in DOMAIN u : a < b => Before(names, u[a], u[b])
  BY DEF FirstsOf
<1>5. ASSUME names[i] \in skipped \cup Range(u) PROVE FirstsOf(names, skipped, i, u)
  <2>1. Range(u) = Seen(i) \ skipped
    BY <1>2, <1>3, <1>5
  <2>2. QED BY <1>3, <1>4, <2>1 DEF FirstsOf
<1>6. ASSUME names[i] \notin skipped \cup Range(u)
      PROVE  FirstsOf(names, skipped, i, Append(u, names[i]))
  <2> DEFINE v == Append(u, names[i])
  <2> HIDE DEF T
  <2>1. /\ v \in Seq(T) /\ Len(u) \in Nat /\ DOMAIN u = 1 .. Len(u)
        /\ DOMAIN v = 1 .. Len(u) + 1
        /\ v[Len(u) + 1] = names[i]
        /\ \A a \in DOMAIN u : v[a] = u[a]
    BY <1>2, <1>3
  <2> HIDE DEF v
  <2>2. Range(v) = Range(u) \cup {names[i]}
    BY <2>1 DEF Range
  <2>3. Range(v) = Seen(i) \ skipped
    BY <1>2, <1>3, <1>6, <2>2
  <2>4. ASSUME NEW a \in DOMAIN v, NEW b \in DOMAIN v, a < b PROVE Before(names, v[a], v[b])
    <3>1. a \in DOMAIN u /\ v[a] = u[a]
      BY <2>1, <2>4
    <3>2. CASE b \in DOMAIN u
      BY <1>4, <2>1, <2>4, <3>1, <3>2
    <3>3. CASE b = Len(u) + 1
      <4>1. u[a] \in Seen(i - 1)
        BY <1>3, <3>1 DEF Range
      <4>2. PICK m \in 1 .. i - 1 : names[m] = u[a]
        BY <4>1
      <4>3. names[i] \notin Seen(i - 1)
        BY <1>3, <1>6
      <4>4. \A l \in 1 .. m : l \in 1 .. i - 1
        BY <4>2
      <4>5. \A l \in 1 .. m : names[l] # names[i]
        BY <4>3, <4>4
      <4>6. QED BY <1>1, <2>1, <3>1, <3>3, <4>2, <4>5 DEF Before
    <3>4. QED BY <2>1, <3>2, <3>3
  <2>5. QED BY <2>1, <2>3, <2>4 DEF FirstsOf, v, T
<1>7. QED BY <1>5, <1>6

\* Firsts keeps each name that is not skipped, once, in the order in which they
\* come first.
LEMMA FirstsAre ==
    ASSUME NEW names, NEW skipped, Len(names) \in Nat, DOMAIN names = 1 .. Len(names)
    PROVE  FirstsOf(names, skipped, Len(names), Firsts(names, skipped))
<1> DEFINE n == Len(names)
<1>1. PICK f : Steps(names, skipped, n, f) /\ Firsts(names, skipped) = f[n]
  BY FirstsStep
<1> DEFINE Bad == {k \in 0 .. n : ~FirstsOf(names, skipped, k, f[k])}
<1>2. SUFFICES ASSUME Bad # {} PROVE FALSE
  BY <1>1
<1>3. Bad \subseteq Nat
  OBVIOUS
<1>4. PICK k \in Bad : \A m \in Bad : k <= m
  BY <1>2, <1>3, LeastMember
<1>5. f[k] = Keep(names, skipped, f, k)
  BY <1>1, <1>4 DEF Steps
<1>6. CASE k = 0
  <2>1. f[k] = << >>
    BY <1>5, <1>6 DEF Keep
  <2>2. FirstsOf(names, skipped, 0, << >>)
    BY DEF FirstsOf, Range
  <2>3. QED BY <1>4, <1>6, <2>1, <2>2
<1>7. CASE k # 0
  <2>1. k \in 1 .. n /\ k - 1 \in 0 .. n /\ ~(k <= k - 1)
    BY <1>4, <1>7
  <2>2. FirstsOf(names, skipped, k - 1, f[k - 1])
    BY <1>4, <2>1
  <2>3. f[k] = IF names[k] \in skipped \cup Range(f[k - 1]) THEN f[k - 1]
               ELSE Append(f[k - 1], names[k])
    BY <1>5, <1>7 DEF Keep
  <2>4. FirstsOf(names, skipped, k, f[k])
    BY <2>1, <2>2, <2>3, OneMore
  <2>5. QED BY <1>4, <2>4
<1>8. QED BY <1>6, <1>7

\* Row-major order: a cell of an earlier row comes first.
LEMMA EarlierRow ==
    ASSUME NEW q \in Nat, NEW g \in Nat, NEW h \in Nat, g < h
    PROVE  g * q + q <= h * q
<1>1. PICK d \in Nat : h = g + 1 + d
  <2>1. h - g - 1 \in Nat /\ h = g + 1 + (h - g - 1)
    OBVIOUS
  <2>2. QED BY <2>1
<1>2. h * q = g * q + q + d * q
  BY <1>1
<1>3. d * q \in Nat /\ g * q \in Nat /\ h * q \in Nat
  OBVIOUS
<1>4. QED BY <1>2, <1>3

\* No ordinal is beyond the number of cells,
LEMMA OrdinalIn ==
    ASSUME NEW p \in Nat, NEW q \in Nat, NEW g \in 1 .. p, NEW s \in 1 .. q
    PROVE  (g - 1) * q + s - 1 \in 0 .. p * q - 1
<1>1. g - 1 \in Nat /\ g - 1 < p
  OBVIOUS
<1>2. (g - 1) * q + q <= p * q
  BY <1>1, EarlierRow
<1>3. (g - 1) * q \in Nat /\ p * q \in Nat
  BY <1>1
<1>4. QED BY <1>2, <1>3

\* none stands for two cells,
LEMMA OrdinalOnce ==
    ASSUME NEW q \in Nat, NEW g \in Nat \ {0}, NEW h \in Nat \ {0}, NEW s \in 1 .. q, NEW t \in 1 .. q,
           (g - 1) * q + s - 1 = (h - 1) * q + t - 1
    PROVE  g = h /\ s = t
<1> DEFINE a == g - 1
           b == h - 1
<1>1. a \in Nat /\ b \in Nat /\ a * q \in Nat /\ b * q \in Nat
  OBVIOUS
<1>2. a * q + s = b * q + t
  BY <1>1
<1>3. a < b => a * q + q <= b * q
  BY <1>1, EarlierRow
<1>4. b < a => b * q + q <= a * q
  BY <1>1, EarlierRow
<1>5. a = b
  <2> HIDE DEF a, b
  <2>1. QED BY <1>1, <1>2, <1>3, <1>4
<1>6. s = t
  <2>1. a * q = b * q
    BY <1>5
  <2> HIDE DEF a, b
  <2>2. QED BY <1>1, <1>2, <2>1
<1>7. QED BY <1>5, <1>6

\* and none is left out.
LEMMA OrdinalOf ==
    ASSUME NEW p \in Nat, NEW q \in Nat, NEW n \in 0 .. p * q - 1
    PROVE  \E g \in 1 .. p, s \in 1 .. q : n = (g - 1) * q + s - 1
<1> DEFINE At(k) == \E g \in 1 .. p, s \in 1 .. q : k = (g - 1) * q + s - 1
           Bad == {k \in 0 .. p * q - 1 : ~At(k)}
<1>1. SUFFICES ASSUME Bad # {} PROVE FALSE
  OBVIOUS
<1>2. Bad \subseteq Nat /\ p * q \in Nat
  OBVIOUS
<1>3. PICK k \in Bad : \A m \in Bad : k <= m
  BY <1>1, <1>2, LeastMember
<1>4. p # 0 /\ q # 0
  <2>1. p * q > 0
    BY <1>2, <1>3
  <2>2. p = 0 => p * q = 0
    OBVIOUS
  <2>3. q = 0 => p * q = 0
    OBVIOUS
  <2>4. QED BY <2>1, <2>2, <2>3
<1>5. CASE k = 0
  <2>1. 1 \in 1 .. p /\ 1 \in 1 .. q /\ 0 = (1 - 1) * q + 1 - 1
    BY <1>4
  <2>2. QED BY <1>3, <1>5, <2>1
<1>6. CASE k # 0
  <2>1. k - 1 \in 0 .. p * q - 1 /\ ~(k <= k - 1)
    BY <1>2, <1>3, <1>6
  <2>2. PICK g \in 1 .. p, s \in 1 .. q : k - 1 = (g - 1) * q + s - 1
    BY <1>3, <2>1
  <2>3. (g - 1) * q \in Nat
    OBVIOUS
  <2>4. CASE s # q
    <3>1. s + 1 \in 1 .. q /\ k = (g - 1) * q + (s + 1) - 1
      BY <2>1, <2>2, <2>3, <2>4
    <3>2. QED BY <1>3, <3>1
  <2>5. CASE s = q
    <3>1. (g - 1) * q = g * q - q
      OBVIOUS
    <3>2. g * q \in Nat
      OBVIOUS
    <3>3. k = g * q
      BY <2>1, <2>2, <2>5, <3>1, <3>2
    <3>4. g # p
      BY <1>2, <1>3, <3>3
    <3>5. g + 1 \in 1 .. p /\ k = ((g + 1) - 1) * q + 1 - 1 /\ 1 \in 1 .. q
      BY <1>4, <3>2, <3>3, <3>4
    <3>6. QED BY <1>3, <3>5
  <2>6. QED BY <2>4, <2>5
<1>7. QED BY <1>5, <1>6

\* Where a name comes first.
LEMMA FirstIs ==
    ASSUME NEW values \in Seq(Value), NEW n, \E i \in DOMAIN values : values[i][1] = n
    PROVE  /\ First(values, n) \in DOMAIN values
           /\ values[First(values, n)][1] = n
           /\ \A k \in DOMAIN values : values[k][1] = n => First(values, n) <= k
<1> DEFINE S == {i \in DOMAIN values : values[i][1] = n}
<1>1. DOMAIN values = 1 .. Len(values) /\ Len(values) \in Nat /\ S \subseteq Nat /\ S # {}
  OBVIOUS
<1>2. PICK m \in S : \A k \in S : m <= k
  BY <1>1, LeastMember
<1>3. m \in DOMAIN values /\ values[m][1] = n /\ \A k \in 1 .. m - 1 : values[k][1] # n
  BY <1>1, <1>2
<1> DEFINE f == First(values, n)
<1>4. f \in DOMAIN values /\ values[f][1] = n /\ \A k \in 1 .. f - 1 : values[k][1] # n
  BY <1>3, Zenon DEF First
<1> HIDE DEF f
<1>5. \A k \in DOMAIN values : values[k][1] = n => f <= k
  BY <1>1, <1>4
<1>6. QED BY <1>4, <1>5 DEF f

\* The axis that dedupe makes of a list.
LEMMA DedupeIs ==
    ASSUME NEW values \in Seq(Value)
    PROVE  dedupe(values) \in Seq(Name) /\ AxisIs(dedupe(values), values)
<1> DEFINE names == [i \in DOMAIN values |-> values[i][1]]
           u == dedupe(values)
<1>1. DOMAIN values = 1 .. Len(values) /\ Len(values) \in Nat
  OBVIOUS
<1>2. \A i \in DOMAIN values : values[i][1] \in Name \cup {Blank}
  BY DEF Value
<1>3. names \in Seq(Name \cup {Blank}) /\ Len(names) = Len(values) /\ DOMAIN names = DOMAIN values
  BY <1>1, <1>2
<1>4. \A i \in DOMAIN values : names[i] = values[i][1]
  OBVIOUS
<1>5. u = Firsts(names, {Blank})
  BY DEF dedupe
<1> HIDE DEF names, u
<1>6. FirstsOf(names, {Blank}, Len(values), u)
  BY <1>1, <1>3, <1>5, FirstsAre
<1>7. Range(u) = {values[i][1] : i \in DOMAIN values} \ {Blank}
  <2>1. {names[k] : k \in 1 .. Len(values)} = {values[i][1] : i \in DOMAIN values}
    BY <1>1, <1>4
  <2>2. QED BY <1>6, <2>1 DEF FirstsOf
<1>8. u \in Seq(Name)
  <2>1. u \in Seq(Range(names))
    BY <1>6 DEF FirstsOf
  <2>2. DOMAIN u = 1 .. Len(u) /\ Len(u) \in Nat
    BY <2>1
  <2>3. \A i \in DOMAIN u : u[i] \in Range(u)
    BY DEF Range
  <2>4. \A i \in DOMAIN u : u[i] \in Name
    BY <1>2, <1>7, <2>3
  <2>5. u = [i \in 1 .. Len(u) |-> u[i]]
    BY <2>1
  <2>6. QED BY <2>2, <2>4, <2>5
<1>9. ASSUME NEW a \in DOMAIN u, NEW b \in DOMAIN u, a < b
      PROVE  First(values, u[a]) < First(values, u[b])
  <2>1. PICK m \in DOMAIN names : names[m] = u[a] /\ \A l \in 1 .. m : names[l] # u[b]
    BY <1>6, <1>9 DEF FirstsOf, Before
  <2>2. u[a] \in Range(u) /\ u[b] \in Range(u)
    BY DEF Range
  <2>3. (\E i \in DOMAIN values : values[i][1] = u[a]) /\ \E i \in DOMAIN values : values[i][1] = u[b]
    BY <1>7, <2>2
  <2>4. First(values, u[a]) \in DOMAIN values /\ First(values, u[a]) <= m
    BY <1>3, <1>4, <2>1, <2>3, FirstIs
  <2>5. First(values, u[b]) \in DOMAIN values /\ values[First(values, u[b])][1] = u[b]
    BY <2>3, FirstIs
  <2>6. First(values, u[b]) \notin 1 .. m
    BY <1>4, <2>1, <2>5
  <2>7. QED BY <1>1, <1>3, <2>1, <2>4, <2>5, <2>6
<1>10. QED BY <1>7, <1>8, <1>9 DEF AxisIs, u

\* The database's order of rows with the ordinals 0, 1, ..., N - 1.
Sorted(rows) == \A i, k \in DOMAIN rows : i < k => rows[i].ordinal <= rows[k].ordinal

Ranked(S, N) ==
    /\ \A r \in S : r.ordinal \in 0 .. N - 1
    /\ \A r, t \in S : r.ordinal = t.ordinal => r = t
    /\ \A n \in 0 .. N - 1 : \E r \in S : r.ordinal = n

\* There are N of them,
LEMMA RankedCount ==
    ASSUME NEW S, NEW N \in Nat, Ranked(S, N)
    PROVE  /\ Cardinality(S) = N
           /\ \E rows \in SetToSeqs(S) : Sorted(rows)
<1> DEFINE f == [n \in 1 .. N |-> CHOOSE r \in S : r.ordinal = n - 1]
<1>1. ASSUME NEW n \in 1 .. N PROVE f[n] \in S /\ f[n].ordinal = n - 1
  <2>1. n - 1 \in 0 .. N - 1
    OBVIOUS
  <2>2. \E r \in S : r.ordinal = n - 1
    BY <2>1 DEF Ranked
  <2>3. QED BY <2>2
<1>2. f \in [1 .. N -> S]
  BY <1>1
<1> HIDE DEF f
<1>3. \A a, b \in 1 .. N : f[a] = f[b] => a = b
  BY <1>1
<1>4. ASSUME NEW r \in S PROVE \E n \in 1 .. N : f[n] = r
  <2>1. r.ordinal \in 0 .. N - 1
    BY DEF Ranked
  <2>2. r.ordinal + 1 \in 1 .. N /\ (r.ordinal + 1) - 1 = r.ordinal
    BY <2>1
  <2>3. f[r.ordinal + 1] \in S /\ f[r.ordinal + 1].ordinal = r.ordinal
    BY <1>1, <2>2
  <2>4. f[r.ordinal + 1] = r
    BY <2>3 DEF Ranked
  <2>5. QED BY <2>2, <2>4
<1>5. f \in Bijection(1 .. N, S)
  BY <1>2, <1>3, <1>4, Fun_IsBij
<1>6. Cardinality(S) = N
  BY <1>5, FS_CountingElements DEF ExistsBijection
<1>7. f \in SetToSeqs(S)
  BY <1>2, <1>3, <1>6 DEF SetToSeqs
<1>8. DOMAIN f = 1 .. N
  BY <1>2
<1>9. Sorted(f)
  BY <1>1, <1>8 DEF Sorted
<1>10. QED BY <1>6, <1>7, <1>9

\* and in their order each is at its ordinal.
LEMMA RankedOrder ==
    ASSUME NEW S, NEW N \in Nat, Ranked(S, N), NEW rows \in SetToSeqs(S), Sorted(rows)
    PROVE  DOMAIN rows = 1 .. N /\ \A k \in 1 .. N : rows[k] \in S /\ rows[k].ordinal = k - 1
<1>1. Cardinality(S) = N
  BY RankedCount
<1>2. rows \in [1 .. N -> S] /\ \A a, b \in 1 .. N : a # b => rows[a] # rows[b]
  BY <1>1 DEF SetToSeqs
<1> DEFINE o == [k \in 1 .. N |-> rows[k].ordinal]
<1>3. \A k \in 1 .. N : o[k] \in 0 .. N - 1
  BY <1>2 DEF Ranked
<1>4. ASSUME NEW a \in 1 .. N, NEW b \in 1 .. N, a < b PROVE o[a] < o[b]
  <2>1. rows[a] # rows[b] /\ rows[a] \in S /\ rows[b] \in S
    BY <1>2, <1>4
  <2>2. o[a] # o[b]
    BY <2>1 DEF Ranked
  <2>3. o[a] <= o[b]
    BY <1>2, <1>4 DEF Sorted
  <2>4. o[a] \in Int /\ o[b] \in Int
    BY <1>3
  <2>5. QED BY <2>2, <2>3, <2>4
<1> HIDE DEF o
<1>5. \A k \in 1 .. N : o[k] >= k - 1
  <2> DEFINE Bad == {k \in 1 .. N : ~(o[k] >= k - 1)}
  <2>1. SUFFICES ASSUME Bad # {} PROVE FALSE
    OBVIOUS
  <2>2. Bad \subseteq Nat
    OBVIOUS
  <2>3. PICK k \in Bad : \A m \in Bad : k <= m
    BY <2>1, <2>2, LeastMember
  <2>4. k # 1 /\ o[k] \in Nat
    BY <1>3, <2>3
  <2>5. k - 1 \in 1 .. N /\ k - 1 < k
    BY <2>3, <2>4
  <2>6. o[k - 1] >= k - 2 /\ o[k - 1] \in Nat
    BY <1>3, <2>3, <2>5
  <2>7. o[k - 1] < o[k]
    BY <1>4, <2>3, <2>5
  <2>8. QED BY <2>3, <2>4, <2>6, <2>7
<1>6. \A k \in 1 .. N : o[k] <= k - 1
  <2> DEFINE Bad == {d \in 0 .. N - 1 : ~(o[N - d] <= N - d - 1)}
  <2>1. ASSUME NEW k \in 1 .. N, ~(o[k] <= k - 1) PROVE N - k \in Bad
    <3>1. N - k \in 0 .. N - 1 /\ N - (N - k) = k
      OBVIOUS
    <3>2. QED BY <2>1, <3>1
  <2>2. SUFFICES ASSUME Bad # {} PROVE FALSE
    BY <2>1
  <2>3. Bad \subseteq Nat
    OBVIOUS
  <2>4. PICK d \in Bad : \A m \in Bad : d <= m
    BY <2>2, <2>3, LeastMember
  <2>5. N - d \in 1 .. N /\ o[N - d] \in 0 .. N - 1
    BY <1>3, <2>4
  <2>6. d # 0
    BY <2>4, <2>5
  <2>7. /\ d - 1 \in 0 .. N - 1 /\ N - (d - 1) = N - d + 1
        /\ N - d + 1 \in 1 .. N /\ N - d < N - d + 1 /\ ~(d <= d - 1)
    BY <2>4, <2>6
  <2>8. o[N - d + 1] <= N - d /\ o[N - d + 1] \in Int
    BY <1>3, <2>4, <2>7
  <2>9. o[N - d] < o[N - d + 1]
    BY <1>4, <2>5, <2>7
  <2>10. QED BY <2>4, <2>5, <2>8, <2>9
<1>7. \A k \in 1 .. N : o[k] = k - 1
  BY <1>3, <1>5, <1>6
<1>8. QED BY <1>2, <1>7 DEF o

\* The rows of a request are such rows.
LEMMA RowsRanked ==
    ASSUME body.groups \in Seq(Value), body.sig_algs \in Seq(Value)
    PROVE  Ranked(Rows, Len(groups) * Len(sig_algs))
<1> DEFINE p == Len(groups)
           q == Len(sig_algs)
           Row(g, s) == [id |-> <<g, s>>, ordinal |-> ordinal(g, s),
                         group |-> groups[g], sig |-> sig_algs[s]]
<1>1. /\ DOMAIN groups = 1 .. p /\ DOMAIN sig_algs = 1 .. q
      /\ p \in Nat /\ q \in Nat
  BY DedupeIs DEF groups, sig_algs
<1>2. Rows = {Row(g, s) : g \in 1 .. p, s \in 1 .. q}
  BY <1>1 DEF Rows
<1>3. \A g \in 1 .. p, s \in 1 .. q : Row(g, s).ordinal = (g - 1) * q + s - 1
  BY DEF ordinal
<1> HIDE DEF p, q, Row
<1>4. ASSUME NEW r \in Rows PROVE r.ordinal \in 0 .. p * q - 1
  <2>1. PICK g \in 1 .. p, s \in 1 .. q : r = Row(g, s)
    BY <1>2
  <2>2. QED BY <1>1, <1>3, <2>1, OrdinalIn
<1>5. ASSUME NEW r \in Rows, NEW t \in Rows, r.ordinal = t.ordinal PROVE r = t
  <2>1. PICK g \in 1 .. p, s \in 1 .. q : r = Row(g, s)
    BY <1>2
  <2>2. PICK h \in 1 .. p, w \in 1 .. q : t = Row(h, w)
    BY <1>2
  <2>3. (g - 1) * q + s - 1 = (h - 1) * q + w - 1
    BY <1>3, <1>5, <2>1, <2>2
  <2>4. g \in Nat \ {0} /\ h \in Nat \ {0}
    BY <1>1
  <2>5. g = h /\ s = w
    BY <1>1, <2>3, <2>4, OrdinalOnce
  <2>6. QED BY <2>1, <2>2, <2>5
<1>6. ASSUME NEW n \in 0 .. p * q - 1 PROVE \E r \in Rows : r.ordinal = n
  <2>1. PICK g \in 1 .. p, s \in 1 .. q : n = (g - 1) * q + s - 1
    BY <1>1, OrdinalOf
  <2>2. Row(g, s) \in Rows /\ Row(g, s).ordinal = n
    BY <1>2, <1>3, <2>1
  <2>3. QED BY <2>2
<1>7. QED BY <1>4, <1>5, <1>6 DEF Ranked, p, q

\* What create_test has established of the request, up to the rows that it has
\* inserted.
Selected ==
    /\ body.groups \in Seq(Value) /\ body.sig_algs \in Seq(Value)
    /\ step \in {"groups", "sig_algs", "insert"} => Len(groups) * Len(sig_algs) <= MaxSubtasks
    /\ step = "queue" => subtasks = Rows
    /\ Cardinality(subtasks) <= MaxSubtasks

LEMMA SelectedStep ==
    ASSUME Selected, NNext \/ UNCHANGED <<step, body, subtasks>>
    PROVE  Selected'
<1>1. ASSUME UNCHANGED <<step, body, subtasks>> PROVE Selected'
  BY <1>1 DEF Selected, Rows, ordinal, groups, sig_algs
<1>2. CASE seed_starts \/ seed_row \/ seed_ends
  BY <1>1, <1>2 DEF seed_starts, seed_row, seed_ends
<1>3. ASSUME Done, UNCHANGED subtasks PROVE Selected'
  <2>1. << >> \in Seq(Value)
    OBVIOUS
  <2>2. body'.groups = << >> /\ body'.sig_algs = << >> /\ step' = "done"
    BY <1>3 DEF Done, NoPost
  <2>3. QED BY <1>3, <2>1, <2>2 DEF Selected
<1>4. ASSUME NEW req \in Posts, post_test(req) PROVE Selected'
  <2>1. req.groups \in Seq(Value) /\ req.sig_algs \in Seq(Value)
    BY NewTestAssumption
  <2>2. UNCHANGED subtasks
    BY <1>4 DEF post_test
  <2>3. CASE Done
    BY <1>3, <2>2, <2>3
  <2>4. CASE ~Refuses(req) /\ step' = "groups" /\ body' = req
    <3>1. dedupe(req.groups) \in Seq(Name) /\ dedupe(req.sig_algs) \in Seq(Name)
      BY <2>1, DedupeIs
    <3> DEFINE p == Len(dedupe(req.groups))
               q == Len(dedupe(req.sig_algs))
    <3>2. p \in Nat /\ q \in Nat
      BY <3>1
    <3>3. ~(p * q > MaxSubtasks)
      BY <2>4 DEF Refuses
    <3>4. groups' = dedupe(req.groups) /\ sig_algs' = dedupe(req.sig_algs)
      BY <2>4 DEF groups, sig_algs
    <3>5. Len(groups') = p /\ Len(sig_algs') = q
      BY <3>4
    <3> HIDE DEF p, q
    <3>6. p * q <= MaxSubtasks
      BY <3>2, <3>3, NewTestAssumption
    <3>7. QED BY <2>1, <2>2, <2>4, <3>5, <3>6 DEF Selected
  <2>5. QED BY <1>4, <2>3, <2>4 DEF post_test
<1>5. ASSUME NEW kind, NEW names, NEW next, reject_unknown(kind, names, next),
             step \in {"groups", "sig_algs"}, next \in {"sig_algs", "insert"}
      PROVE  Selected'
  <2>1. UNCHANGED subtasks
    BY <1>5 DEF reject_unknown
  <2>2. CASE Done
    BY <1>3, <2>1, <2>2
  <2>3. CASE step' = next /\ UNCHANGED body
    BY <1>5, <2>1, <2>3 DEF Selected, groups, sig_algs
  <2>4. QED BY <1>5, <2>2, <2>3 DEF reject_unknown
<1>6. CASE check_groups \/ check_sig_algs
  BY <1>5, <1>6 DEF check_groups, check_sig_algs
<1>7. CASE insert_test
  <2>1. step = "insert" /\ step' = "queue" /\ subtasks' = Rows /\ UNCHANGED body
    BY <1>7 DEF insert_test
  <2>2. groups \in Seq(Name) /\ sig_algs \in Seq(Name)
    BY DedupeIs DEF Selected, groups, sig_algs
  <2>3. Len(groups) * Len(sig_algs) \in Nat
    BY <2>2
  <2>4. Cardinality(Rows) <= MaxSubtasks
    BY <2>1, <2>3, RowsRanked, RankedCount DEF Selected
  <2>5. Rows' = Rows
    BY <2>1 DEF Rows, ordinal, groups, sig_algs
  <2>6. QED BY <2>1, <2>4, <2>5 DEF Selected
<1>8. CASE enqueue_probes
  BY <1>3, <1>8 DEF enqueue_probes
<1>9. CASE create_fails
  BY <1>3, <1>9 DEF create_fails
<1>10. QED
  BY <1>1, <1>2, <1>4, <1>6, <1>7, <1>8, <1>9 DEF NNext

LEMMA SelectedInvariance == CSpec => [](CellInv /\ Selected)
<1>1. CInit => Selected
  <2>1. << >> \in Seq(Value)
    OBVIOUS
  <2>2. QED BY <2>1, FS_EmptySet, NewTestAssumption DEF CInit, NInit, NoPost, Selected
<1>2. ASSUME [CNext]_allvars PROVE NNext \/ UNCHANGED <<step, body, subtasks>>
  BY <1>2 DEF CNext, allvars, nvars, handle, kem_handle, Probe, cached, missed, fetched, fetch_fails,
             other_missed, other_fetched
<1>3. Selected /\ [CNext]_allvars => Selected'
  BY <1>2, SelectedStep
<1>4. QED BY <1>1, <1>3, CellInvariance, PTL DEF CSpec

\* The rows in the order in which get_matrix reads them, of p groups and q
\* signature algorithms.
Placed(p, q) ==
    /\ DOMAIN ByOrdinal = 1 .. p * q
    /\ \A g \in 1 .. p, s \in 1 .. q :
          /\ (g - 1) * q + s \in 1 .. p * q
          /\ ByOrdinal[(g - 1) * q + s].group = groups[g]
          /\ ByOrdinal[(g - 1) * q + s].sig = sig_algs[s]

\* Every row is where its ordinal says.
LEMMA ByOrdinalIs ==
    ASSUME body.groups \in Seq(Value), body.sig_algs \in Seq(Value), subtasks = Rows
    PROVE  Placed(Len(groups), Len(sig_algs))
<1> DEFINE p == Len(groups)
           q == Len(sig_algs)
<1>1. /\ DOMAIN groups = 1 .. p /\ DOMAIN sig_algs = 1 .. q
      /\ p \in Nat /\ q \in Nat
  BY DedupeIs DEF groups, sig_algs
<1>2. p * q \in Nat
  BY <1>1
<1>3. Ranked(Rows, p * q)
  BY RowsRanked
<1> HIDE DEF p, q
<1>4. \E rows \in SetToSeqs(Rows) : Sorted(rows)
  BY <1>2, <1>3, RankedCount
<1>5. ByOrdinal \in SetToSeqs(Rows) /\ Sorted(ByOrdinal)
  BY <1>4, Zenon DEF ByOrdinal, Sorted
<1>6. /\ DOMAIN ByOrdinal = 1 .. p * q
      /\ \A k \in 1 .. p * q : ByOrdinal[k] \in Rows /\ ByOrdinal[k].ordinal = k - 1
  BY <1>2, <1>3, <1>5, RankedOrder
<1>7. ASSUME NEW g \in 1 .. p, NEW s \in 1 .. q
      PROVE  /\ (g - 1) * q + s \in 1 .. p * q
             /\ ByOrdinal[(g - 1) * q + s].group = groups[g]
             /\ ByOrdinal[(g - 1) * q + s].sig = sig_algs[s]
  <2> DEFINE k == (g - 1) * q + s
             r == [id |-> <<g, s>>, ordinal |-> ordinal(g, s), group |-> groups[g], sig |-> sig_algs[s]]
  <2>1. (g - 1) * q + s - 1 \in 0 .. p * q - 1
    BY <1>1, OrdinalIn
  <2>a. (g - 1) * q \in Int
    BY <1>1
  <2>2. k \in 1 .. p * q /\ k - 1 = (g - 1) * q + s - 1
    BY <1>2, <2>1, <2>a
  <2>3. r \in Rows
    BY <1>1 DEF Rows
  <2>4. r.ordinal = k - 1
    BY <2>2 DEF ordinal, q
  <2>5. r.group = groups[g] /\ r.sig = sig_algs[s]
    OBVIOUS
  <2> HIDE DEF k, r
  <2>6. ByOrdinal[k] = r
    BY <1>3, <1>6, <2>2, <2>3, <2>4 DEF Ranked
  <2>7. QED BY <2>2, <2>5, <2>6 DEF k
<1>8. QED BY <1>6, <1>7 DEF Placed, p, q

\* No name is twice on an axis.
LEMMA AxisOnce ==
    ASSUME NEW values \in Seq(Value), NEW u, AxisIs(u, values), DOMAIN u \subseteq Nat,
           NEW a \in DOMAIN u, NEW b \in DOMAIN u, u[a] = u[b]
    PROVE  a = b
<1>1. u[a] \in {values[i][1] : i \in DOMAIN values}
  BY DEF AxisIs, Range
<1>2. First(values, u[a]) \in Nat
  <2>1. First(values, u[a]) \in DOMAIN values
    BY <1>1, FirstIs
  <2>2. QED BY <2>1
<1>3. a < b => First(values, u[a]) < First(values, u[b])
  BY DEF AxisIs
<1>4. b < a => First(values, u[b]) < First(values, u[a])
  BY DEF AxisIs
<1>5. QED BY <1>2, <1>3, <1>4

\* So that two axes of the same selection have the same length.
LEMMA AxisLength ==
    ASSUME NEW values \in Seq(Value), NEW n \in Nat, NEW u, AxisIs(u, values), DOMAIN u = 1 .. n
    PROVE  Cardinality({values[i][1] : i \in DOMAIN values} \ {Blank}) = n
<1> DEFINE T == {values[i][1] : i \in DOMAIN values} \ {Blank}
<1>1. T = {u[k] : k \in 1 .. n}
  BY DEF AxisIs, Range
<1> HIDE DEF T
<1> DEFINE f == [k \in 1 .. n |-> u[k]]
<1>2. f \in [1 .. n -> T] /\ \A t \in T : \E k \in 1 .. n : f[k] = t
  BY <1>1
<1>3. \A a, b \in 1 .. n : f[a] = f[b] => a = b
  BY AxisOnce
<1> HIDE DEF f
<1>4. f \in Bijection(1 .. n, T)
  BY <1>2, <1>3, Fun_IsBij
<1>5. QED BY <1>4, FS_CountingElements DEF ExistsBijection, T

\* An axis is found again in a list of its names in which a name comes after
\* all of those before it.
LEMMA AxisAgain ==
    ASSUME NEW values \in Seq(Value), NEW axis \in Seq(Name), AxisIs(axis, values),
           NEW names, Len(names) \in Nat, DOMAIN names = 1 .. Len(names),
           Range(names) = Range(axis),
           \A m \in DOMAIN names, a, b \in DOMAIN axis :
              names[m] = axis[a] /\ b < a => \E l \in 1 .. m : names[l] = axis[b]
    PROVE  LET u == Firsts(names, {})
           IN  AxisIs(u, values) /\ Len(u) = Len(axis) /\ Range(u) = Range(axis)
<1> DEFINE u == Firsts(names, {})
           n == Len(names)
<1>1. FirstsOf(names, {}, n, u)
  BY FirstsAre
<1> HIDE DEF u
<1>2. Range(u) = Range(axis)
  <2>1. Range(names) = {names[k] : k \in 1 .. n}
    BY DEF Range
  <2>2. QED BY <1>1, <2>1 DEF FirstsOf
<1>3. DOMAIN u = 1 .. Len(u) /\ Len(u) \in Nat
  BY <1>1 DEF FirstsOf
<1>4. DOMAIN axis = 1 .. Len(axis) /\ Len(axis) \in Nat
  OBVIOUS
<1>5. ASSUME NEW i \in DOMAIN u, NEW k \in DOMAIN u, i < k
      PROVE  First(values, u[i]) < First(values, u[k])
  <2>1. PICK m \in DOMAIN names : names[m] = u[i] /\ \A l \in 1 .. m : names[l] # u[k]
    BY <1>1, <1>5 DEF FirstsOf, Before
  <2>2. u[i] \in Range(axis) /\ u[k] \in Range(axis)
    BY <1>2 DEF Range
  <2>3. PICK a \in DOMAIN axis : axis[a] = u[i]
    BY <2>2 DEF Range
  <2>4. PICK b \in DOMAIN axis : axis[b] = u[k]
    BY <2>2 DEF Range
  <2>5. ~(b < a)
    BY <2>1, <2>3, <2>4
  <2>6. m \in 1 .. m
    BY <2>1
  <2>7. a # b
    BY <2>1, <2>3, <2>4, <2>6
  <2>8. a < b
    BY <1>4, <2>5, <2>7
  <2>9. QED BY <2>3, <2>4, <2>8 DEF AxisIs
<1>6. AxisIs(u, values)
  BY <1>2, <1>5 DEF AxisIs
<1>7. Len(u) = Len(axis)
  BY <1>3, <1>4, <1>6, AxisLength
<1>8. QED BY <1>2, <1>6, <1>7 DEF u

\* The axes that get_matrix gets back from the rows are those of the request,
\* for lists of any length: the ordinals carry the order of both axes.
THEOREM MatrixAsSelectedCorrect == CSpec => []MatrixAsSelected
<1>1. ASSUME Selected PROVE MatrixAsSelected
  <2> SUFFICES ASSUME step = "queue", subtasks # {}
               PROVE  /\ AxisIs(MatrixGroups, body.groups)
                      /\ AxisIs(MatrixSigAlgs, body.sig_algs)
                      /\ {<<r.group, r.sig>> : r \in subtasks}
                            = Range(MatrixGroups) \X Range(MatrixSigAlgs)
                      /\ {r.ordinal : r \in subtasks}
                            = 0 .. Len(MatrixGroups) * Len(MatrixSigAlgs) - 1
    BY DEF MatrixAsSelected
  <2> DEFINE p == Len(groups)
             q == Len(sig_algs)
             gnames == [i \in DOMAIN ByOrdinal |-> ByOrdinal[i].group]
             snames == [i \in DOMAIN ByOrdinal |-> ByOrdinal[i].sig]
  <2>1. body.groups \in Seq(Value) /\ body.sig_algs \in Seq(Value) /\ subtasks = Rows
    BY <1>1 DEF Selected
  <2>2. /\ groups \in Seq(Name) /\ AxisIs(groups, body.groups)
        /\ sig_algs \in Seq(Name) /\ AxisIs(sig_algs, body.sig_algs)
    BY <2>1, DedupeIs DEF groups, sig_algs
  <2>3. /\ DOMAIN groups = 1 .. p /\ DOMAIN sig_algs = 1 .. q
        /\ p \in Nat /\ q \in Nat
    BY <2>2
  <2>4. p * q \in Nat
    BY <2>3
  <2>5. p # 0 /\ q # 0
    <3>1. PICK r \in Rows : TRUE
      BY <2>1
    <3>2. PICK g \in DOMAIN groups, s \in DOMAIN sig_algs : TRUE
      BY <3>1 DEF Rows
    <3>3. QED BY <2>3, <3>2
  <2>6. Placed(p, q)
    BY <2>1, ByOrdinalIs
  <2>7. ASSUME NEW g \in 1 .. p, NEW s \in 1 .. q
        PROVE  /\ (g - 1) * q + s \in 1 .. p * q
               /\ gnames[(g - 1) * q + s] = groups[g]
               /\ snames[(g - 1) * q + s] = sig_algs[s]
    <3>1. /\ (g - 1) * q + s \in 1 .. p * q
          /\ ByOrdinal[(g - 1) * q + s].group = groups[g]
          /\ ByOrdinal[(g - 1) * q + s].sig = sig_algs[s]
      BY <2>6 DEF Placed
    <3>2. QED BY <2>6, <3>1 DEF Placed
  <2>8. /\ DOMAIN gnames = 1 .. p * q /\ Len(gnames) = p * q
        /\ DOMAIN snames = 1 .. p * q /\ Len(snames) = p * q
    BY <2>4, <2>6 DEF Placed
  <2>9. MatrixGroups = Firsts(gnames, {}) /\ MatrixSigAlgs = Firsts(snames, {})
    BY DEF MatrixGroups, MatrixSigAlgs
  <2> HIDE DEF p, q, gnames, snames
  <2>10. ASSUME NEW m \in 1 .. p * q
         PROVE  \E g \in 1 .. p, s \in 1 .. q : m = (g - 1) * q + s
    <3>1. m - 1 \in 0 .. p * q - 1
      BY <2>4
    <3>2. PICK g \in 1 .. p, s \in 1 .. q : m - 1 = (g - 1) * q + s - 1
      BY <2>3, <3>1, OrdinalOf
    <3>3. (g - 1) * q \in Int
      BY <2>3
    <3>4. m = (g - 1) * q + s
      BY <3>2, <3>3
    <3>5. QED BY <3>4
  <2>11. Range(gnames) = Range(groups) /\ Range(snames) = Range(sig_algs)
    <3>1. ASSUME NEW m \in DOMAIN gnames
          PROVE  gnames[m] \in Range(groups) /\ snames[m] \in Range(sig_algs)
      <4>1. PICK g \in 1 .. p, s \in 1 .. q : m = (g - 1) * q + s
        BY <2>8, <2>10
      <4>2. QED BY <2>3, <2>7, <4>1 DEF Range
    <3>2. 1 \in 1 .. p /\ 1 \in 1 .. q
      BY <2>3, <2>5
    <3>3. ASSUME NEW g \in DOMAIN groups PROVE groups[g] \in Range(gnames)
      <4>1. (g - 1) * q + 1 \in DOMAIN gnames /\ gnames[(g - 1) * q + 1] = groups[g]
        BY <2>3, <2>7, <2>8, <3>2
      <4>2. QED BY <4>1 DEF Range
    <3>4. ASSUME NEW s \in DOMAIN sig_algs PROVE sig_algs[s] \in Range(snames)
      <4>1. (1 - 1) * q + s \in DOMAIN snames /\ snames[(1 - 1) * q + s] = sig_algs[s]
        BY <2>3, <2>7, <2>8, <3>2
      <4>2. QED BY <4>1 DEF Range
    <3>5. DOMAIN gnames = DOMAIN snames
      BY <2>8
    <3>6. QED BY <3>1, <3>3, <3>4, <3>5 DEF Range
  <2>12. ASSUME NEW m \in DOMAIN gnames, NEW a \in DOMAIN groups, NEW b \in DOMAIN groups,
                gnames[m] = groups[a] /\ b < a
         PROVE  \E l \in 1 .. m : gnames[l] = groups[b]
    <3>1. PICK g \in 1 .. p, s \in 1 .. q : m = (g - 1) * q + s
      BY <2>8, <2>10
    <3>2. groups[g] = groups[a]
      BY <2>7, <2>12, <3>1
    <3>3. g = a
      <4>1. DOMAIN groups \subseteq Nat /\ g \in DOMAIN groups
        BY <2>3
      <4>2. QED BY <2>1, <2>2, <3>2, <4>1, AxisOnce
    <3>4. b - 1 \in Nat /\ g - 1 \in Nat /\ b - 1 < g - 1
      BY <2>3, <2>12, <3>3
    <3>5. (b - 1) * q + q <= (g - 1) * q
      BY <2>3, <3>4, EarlierRow
    <3>6. (b - 1) * q \in Int /\ (g - 1) * q \in Int
      BY <2>3, <3>4
    <3>7. 1 \in 1 .. q /\ b \in 1 .. p
      BY <2>3, <2>5
    <3>8. (b - 1) * q + 1 \in 1 .. p * q /\ gnames[(b - 1) * q + 1] = groups[b]
      BY <2>7, <3>7
    <3>9. (b - 1) * q + 1 \in 1 .. m
      BY <2>3, <2>4, <3>1, <3>5, <3>6, <3>8
    <3>10. QED BY <3>8, <3>9
  <2>13. ASSUME NEW m \in DOMAIN snames, NEW a \in DOMAIN sig_algs, NEW b \in DOMAIN sig_algs,
                snames[m] = sig_algs[a] /\ b < a
         PROVE  \E l \in 1 .. m : snames[l] = sig_algs[b]
    <3>1. PICK g \in 1 .. p, s \in 1 .. q : m = (g - 1) * q + s
      BY <2>8, <2>10
    <3>2. sig_algs[s] = sig_algs[a]
      BY <2>7, <2>13, <3>1
    <3>3. s = a
      <4>1. DOMAIN sig_algs \subseteq Nat /\ s \in DOMAIN sig_algs
        BY <2>3
      <4>2. QED BY <2>1, <2>2, <3>2, <4>1, AxisOnce
    <3>4. (g - 1) * q \in Int
      BY <2>3
    <3>5. b \in 1 .. q
      BY <2>3
    <3>6. (g - 1) * q + b \in 1 .. p * q /\ snames[(g - 1) * q + b] = sig_algs[b]
      BY <2>7, <3>5
    <3>7. (g - 1) * q + b \in 1 .. m
      BY <2>4, <2>13, <3>1, <3>3, <3>4, <3>5, <3>6
    <3>8. QED BY <3>6, <3>7
  <2>14. /\ AxisIs(MatrixGroups, body.groups) /\ Range(MatrixGroups) = Range(groups)
         /\ Len(MatrixGroups) = p
    BY <2>1, <2>2, <2>4, <2>8, <2>9, <2>11, <2>12, AxisAgain DEF p
  <2>15. /\ AxisIs(MatrixSigAlgs, body.sig_algs) /\ Range(MatrixSigAlgs) = Range(sig_algs)
         /\ Len(MatrixSigAlgs) = q
    BY <2>1, <2>2, <2>4, <2>8, <2>9, <2>11, <2>13, AxisAgain DEF q
  <2>16. {<<r.group, r.sig>> : r \in Rows} = Range(groups) \X Range(sig_algs)
    <3>1. ASSUME NEW r \in Rows PROVE <<r.group, r.sig>> \in Range(groups) \X Range(sig_algs)
      <4>1. PICK g \in DOMAIN groups, s \in DOMAIN sig_algs :
              r.group = groups[g] /\ r.sig = sig_algs[s]
        BY DEF Rows
      <4>2. QED BY <4>1 DEF Range
    <3>2. ASSUME NEW x \in Range(groups), NEW y \in Range(sig_algs)
          PROVE  \E r \in Rows : r.group = x /\ r.sig = y
      <4>1. PICK g \in DOMAIN groups : groups[g] = x
        BY DEF Range
      <4>2. PICK s \in DOMAIN sig_algs : sig_algs[s] = y
        BY DEF Range
      <4> DEFINE r == [id |-> <<g, s>>, ordinal |-> ordinal(g, s),
                       group |-> groups[g], sig |-> sig_algs[s]]
      <4>3. r \in Rows
        BY DEF Rows
      <4>4. r.group = x /\ r.sig = y
        BY <4>1, <4>2
      <4>5. QED BY <4>3, <4>4
    <3>3. QED BY <3>1, <3>2
  <2>17. {r.ordinal : r \in Rows} = 0 .. p * q - 1
    <3>1. Ranked(Rows, p * q)
      BY <2>1, RowsRanked DEF p, q
    <3>2. QED BY <3>1 DEF Ranked
  <2>18. QED BY <2>1, <2>14, <2>15, <2>16, <2>17
<1>2. QED BY <1>1, SelectedInvariance, PTL

=============================================================================
