-------------------------- MODULE InterceptorChain --------------------------
(***************************************************************************)
(* makeInterceptor (GayRpcInterceptor.h): a list of interceptors is folded *)
(* from the right into one, around an innermost one that only calls the    *)
(* handler.  Every wrapper hands its interceptor a `next' that owns the    *)
(* handler and moves it inwards when it is called.  What matters of an     *)
(* interceptor is what it does with next; the kinds are those of           *)
(* UtilsInterceptor.h and what interceptors of a program do:               *)
(*   "pass"     calls next                                                 *)
(*   "send"     writes the message to the session, then calls next         *)
(*   "arm"      arms the timer of withTimeoutCheck, then calls next        *)
(*   "protect"  calls next, and turns an exception into an error           *)
(*   "keep"     answers with an error and does not call next               *)
(*   "throw"    throws                                                     *)
(*   "twice"    calls next, and calls it again                             *)
(***************************************************************************)
EXTENDS Naturals, FiniteSets, SequencesExt

Kinds    == {"pass", "send", "arm", "protect", "keep", "throw", "twice"}
Stoppers == {"keep", "throw"}
Outcomes == {"ok", "err", "throw"}

Path(visits, outcome) == [visits |-> visits, outcome |-> outcome]

\* What calling a function of the chain leads to: with a next that still owns the
\* handler, and with one whose handler a call before this one has moved away.
Callee(fresh, spent) == [fresh |-> fresh, spent |-> spent]

\* The innermost function calls the handler; an empty function throws.
Innermost(at, handler) == Callee(Path(<<at>>, handler), Path(<<>>, "throw"))

Then(first, second) == Path(first.visits \o second.visits, second.outcome)

NextIsShared(chain, i) == TRUE  \* bug: next is captured by reference

\* A second call of next finds the handler still there only if no wrapper stands
\* between next and the innermost function, which does not move it.
NextSurvives(chain, i) == i = Len(chain)

\* withProtectedCall
Caught(path) == IF path.outcome = "throw" THEN Path(path.visits, "err") ELSE path

\* An interceptor whose first call of next leads to rest, and a second one to again.
Interceptor(at, kind, rest, again) ==
  LET here == Path(<<at>>, "ok")
  IN CASE kind = "keep"    -> Path(<<at>>, "err")
       [] kind = "throw"   -> Path(<<at>>, "throw")
       [] kind = "protect" -> Then(here, Caught(rest))
       [] kind = "twice" /\ rest.outcome # "throw" -> Then(here, Then(rest, again))
       [] OTHER -> Then(here, rest)

UserInterceptors(chain) ==
  [i \in DOMAIN chain |-> [at |-> i, kind |-> chain[i], survives |-> NextSurvives(chain, i)]]

\* One round of the loop: an interceptor around what was combined so far.
Wrapper(inner, user) ==
  Callee(Interceptor(user.at, user.kind, inner.fresh,
                     IF user.survives THEN inner.fresh ELSE inner.spent),
         Interceptor(user.at, user.kind, inner.spent, inner.spent))

\* What a message that enters the chain meets, by position (the handler is
\* position Len(chain) + 1), and what comes out: the handler returns, answers an
\* error or throws as `handler' says.
Run(chain, handler) ==
  FoldLeft(Wrapper, Innermost(Len(chain) + 1, handler), Reverse(UserInterceptors(chain))).fresh

Visits(chain, handler, i) == Cardinality({k \in DOMAIN Run(chain, handler).visits :
                                            Run(chain, handler).visits[k] = i})

\* How often a chain without surprises from its handler does what kind does.
Times(chain, kind) ==
  Cardinality({k \in DOMAIN Run(chain, "ok").visits :
                 LET i == Run(chain, "ok").visits[k] IN i <= Len(chain) /\ chain[i] = kind})

-----------------------------------------------------------------------------
(* Reference: interceptors run in the order of the list, up to the first   *)
(* one that does not go on.                                                *)

Stops(chain) == {i \in DOMAIN chain : chain[i] \in Stoppers}

LastReached(chain) ==
  IF Stops(chain) = {} THEN Len(chain) + 1
  ELSE CHOOSE i \in Stops(chain) : \A j \in Stops(chain) : i <= j

InOrder(chain) == Run(chain, "ok").visits = [i \in 1..LastReached(chain) |-> i]
=============================================================================
