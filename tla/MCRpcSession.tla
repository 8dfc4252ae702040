---------------------------- MODULE MCRpcSession ----------------------------
(***************************************************************************)
(* Programs on the two ends of a connection, for TLC.                      *)
(***************************************************************************)
EXTENDS EchoPrograms

Strange == <<"plain", 9>>     \* a method the service does not have

\* Two clients of one service on one end, with the chains of SyncEchoClient.cpp.
Twins == [home |-> Two("A", "A"), idOf |-> Two(0, 0), makes |-> Two({Timed}, {Plain}),
          offers |-> Both({}, {0}), does |-> {"reply", "hold"},
          out |-> Both(<<"send", "arm">>, <<"send">>), in |-> Both(<<"protect">>, <<"protect">>),
          newer |-> {"B"}, built |-> {}]

\* Clients of two services; the server repeats the sender, and the peer that
\* calls is newer.
Pair == [home |-> Two("A", "A"), idOf |-> Two(0, 1), makes |-> Two({Plain}, {Timed, Strange}),
         offers |-> Both({}, {0, 1}), does |-> {"reply", "throw", "reply and throw"},
         out |-> Both(<<"send", "arm">>, <<"send", "send">>), in |-> Both(<<>>, <<"protect">>),
         newer |-> {"A"}, built |-> {c1}]

\* Interceptors that stop, throw and repeat.
Stopped == [home |-> Two("A", "A"), idOf |-> Two(1, 0), makes |-> Two({Plain, Timed}, {Timed}),
            offers |-> Both({}, {0, 1}), does |-> {"fail", "hold"},
            out |-> Both(<<"protect", "send", "throw", "arm">>, <<"send", "keep">>),
            in |-> Both(<<"protect", "keep">>, <<"pass">>), newer |-> {}, built |-> {}]

\* ... and a request for a service that is not there.
Repeated == [home |-> Two("A", "A"), idOf |-> Two(0, 1), makes |-> Two({OneWay}, {Plain}),
             offers |-> Both({}, {1}), does |-> {"reply", "hold"},
             out |-> Both(<<"twice", "send">>, <<"send", "twice", "pass">>),
             in |-> Both(<<"pass">>, <<"protect", "twice">>), newer |-> {}, built |-> {}]

MCPrograms == {Joined(EchoClient), Joined(SyncEchoClient), Twins, Pair, Stopped, Repeated}
NewField   == [num |-> 9, varint |-> 200]   \* two bytes long

\* Every kind of field, set and at its default; messages of a size beyond 127, and
\* numbers of one to five bytes.
Long == "a long reason, long enough that its length does not fit into one byte: a varint of seven bits ends at one hundred and twenty-seven"
MCMessages ==
  [type : {RESPONSE}, service_id : {0, 300}, encoding : {BINARY, JSON},
   request_info : {Null, Ptr(NewRequest), Ptr([NewRequest EXCEPT !.strMethod = "Echo", !.timeout = 20000, !.sequence_id = 400000000])},
   response_info : {Null, Ptr([NewResponse EXCEPT !.reason = Long, !.error_code = -1, !.sequence_id = 3000000]),
                    Ptr([NewResponse EXCEPT !.timeout = TRUE, !.unknown = <<NewField>>])},
   meta_data : {[k \in {} |-> ""], [k \in {"", "trace"} |-> "v"], [k \in {"trace"} |-> "w"]},
   unknown : {<<>>}]
MCCodes    == {-1}         \* ten bytes long
MCCalls    == Two(2, 1)
=============================================================================
