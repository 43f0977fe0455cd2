------------------------------ MODULE AsyncMap ------------------------------
(***************************************************************************)
(* The caches of approximations that the analyst's Validator asks: a map   *)
(* of terms, whose values are made by tasks that wait for the values of a  *)
(* term's arguments, and a map of converted terms, whose values a pool of  *)
(* workers computes.  Both are AsyncMaps (util/async_map): who finds a key *)
(* first starts its function, and callbacks wait until its value is        *)
(* stored.                                                                 *)
(*                                                                         *)
(* A thread is its stack of calls, next one first; a step is one access to *)
(* what threads share: a map of values, the callbacks under their mutex,   *)
(* the counter of a task, or the queue of the pool.                        *)
(***************************************************************************)
EXTENDS Naturals, Sequences, FiniteSets

CONSTANTS
  Worker,     \* threads of the pool
  Server,     \* the thread that asks for terms
  Key,        \* terms: records with a name, an arity, an ob and arguments
  Approx      \* what a converted term may be computed to be

ASSUME AsyncAssumption == \A k \in Key : k.args \in Seq(Key)

Thread == Worker \cup {Server}

VARIABLES
  values,     \* m_values of both maps, NoValue for keys in the making
  callbacks,  \* m_callbacks
  waiting,    \* the counters of tasks
  queue,      \* of the pool
  stack       \* of each thread

async     == <<values, callbacks, waiting, queue>>
asyncVars == <<async, stack>>

NoValue == {}

Maps == {"term", "approx"}

\* Calls.  A callback lacks the value that it will be called with.
Call(do, map, key, then) == [do |-> do, map |-> map, key |-> key, then |-> then]
Nothing == <<>>
FindAsync(map, key, callback) == Call("find_async", map, key, <<callback>>)
FindNow(key)                  == Call("find", "term", key, Nothing)
Arrive(key)                   == Call("arrive", "term", key, Nothing)
Store(map, key, value)        == Call("store", map, key, value)

WithValue(callback, value) ==
  IF callback.do = "store" THEN [callback EXCEPT !.then = value] ELSE callback

Top(t) == Head(stack[t])
Doing(t, do) == stack[t] # <<>> /\ Top(t).do = do
Become(t, calls) == stack' = [stack EXCEPT ![t] = calls \o Tail(@)]

With(f, key, v) == [k \in DOMAIN f \cup {key} |-> IF k = key THEN v ELSE f[k]]
Without(f, key) == [k \in DOMAIN f \ {key} |-> f[k]]

-----------------------------------------------------------------------------
(* AsyncMap.                                                               *)

Value(map, key) == IF key \in DOMAIN values[map] THEN values[map][key] ELSE NoValue

\* Faulty: a key that is in the making is made again.
IsNewPending(map, key) == Value(map, key) = NoValue

IsNew(map, key) == key \notin DOMAIN values[map]

InsertKey(map, key) == values' = [values EXCEPT ![map] = With(@, key, NoValue)]

\* find_async(): the insertion into m_values, and the first look at the value.
FindStep(t) ==
  /\ Doing(t, "find_async") \/ Doing(t, "find")
  /\ LET c == Top(t)
     IN  \/ /\ IsNew(c.map, c.key)
            /\ InsertKey(c.map, c.key)
            /\ Become(t, <<Call("enlist", c.map, c.key, c.then),
                           Call("function", c.map, c.key, Nothing)>>)
         \/ /\ ~ IsNew(c.map, c.key)
            /\ Become(t, IF c.then = Nothing THEN <<>>
                         ELSE IF Value(c.map, c.key) # NoValue
                           THEN <<WithValue(c.then[1], Value(c.map, c.key))>>
                           ELSE <<Call("check", c.map, c.key, c.then)>>)
            /\ UNCHANGED values
  /\ UNCHANGED <<callbacks, waiting, queue>>

\* callbacks_locked(), which makes the list if there is none.
Enlisted(map, key, more) ==
  [callbacks EXCEPT ![map] =
     With(@, key, IF key \in DOMAIN @ THEN @[key] \o more ELSE more)]

\* The thread that inserted the key, before it starts the function.
Enlist(t) ==
  /\ Doing(t, "enlist")
  /\ callbacks' = Enlisted(Top(t).map, Top(t).key, Top(t).then)
  /\ Become(t, <<>>)
  /\ UNCHANGED <<values, waiting, queue>>

\* Faulty: a thread that saw no value does not look again.
CheckUnlocked(t) ==
  /\ Doing(t, "check")
  /\ callbacks' = Enlisted(Top(t).map, Top(t).key, Top(t).then)
  /\ Become(t, <<>>)
  /\ UNCHANGED <<values, waiting, queue>>

\* A thread that saw no value looks again under the mutex.
Check(t) ==
  /\ Doing(t, "check")
  /\ LET c == Top(t)
     IN  IF Value(c.map, c.key) = NoValue
           THEN /\ callbacks' = Enlisted(c.map, c.key, c.then)
                /\ Become(t, <<>>)
           ELSE /\ Become(t, <<WithValue(c.then[1], Value(c.map, c.key))>>)
                /\ UNCHANGED callbacks
  /\ UNCHANGED <<values, waiting, queue>>

\* store(): the value first, then the callbacks, which are called one by one.
StoreValue(t) ==
  /\ Doing(t, "store")
  /\ LET c == Top(t)
     IN  /\ values' = [values EXCEPT ![c.map][c.key] = c.then]
         /\ Become(t, <<Call("notify", c.map, c.key, c.then)>>)
  /\ UNCHANGED <<callbacks, waiting, queue>>

Notify(t) ==
  /\ Doing(t, "notify")
  /\ LET c == Top(t)
         called == callbacks[c.map][c.key]
     IN  /\ Become(t, [i \in DOMAIN called |-> WithValue(called[i], c.then)])
         /\ callbacks' = [callbacks EXCEPT ![c.map] = Without(@, c.key)]
  /\ UNCHANGED <<values, waiting, queue>>

-----------------------------------------------------------------------------
(* What the maps compute.                                                  *)

\* convert(): the arguments are approximations that are stored by now.
Convert(key) ==
  [name |-> key.name, arity |-> key.arity, ob |-> key.ob,
   args |-> [i \in DOMAIN key.args |-> Value("term", key.args[i])]]

\* The calls of a new task: one search for each argument, and its own arrival.
TaskCalls(key) ==
  Append([i \in DOMAIN key.args |-> FindAsync("term", key.args[i], Arrive(key))], Arrive(key))

\* new Task: a count for each argument, and one for the constructor itself.
NewTask(t) ==
  /\ Doing(t, "function") /\ Top(t).map = "term"
  /\ waiting' = With(waiting, Top(t).key, 1 + Len(Top(t).key.args))
  /\ Become(t, TaskCalls(Top(t).key))
  /\ UNCHANGED <<values, callbacks, queue>>

\* Task::operator(): the last one asks for the approximation.
TaskArrive(t) ==
  /\ Doing(t, "arrive")
  /\ LET key == Top(t).key
     IN  IF waiting[key] = 1
           THEN /\ waiting' = Without(waiting, key)
                /\ Become(t, <<FindAsync("approx", Convert(key), Store("term", key, NoValue))>>)
           ELSE /\ waiting' = [waiting EXCEPT ![key] = @ - 1]
                /\ Become(t, <<>>)
  /\ UNCHANGED <<values, callbacks, queue>>

\* m_pool.schedule()
Schedule(t) ==
  /\ Doing(t, "function") /\ Top(t).map = "approx"
  /\ queue' = Append(queue, Top(t).key)
  /\ Become(t, <<>>)
  /\ UNCHANGED <<values, callbacks, waiting>>

\* A worker takes a task, and computes its value.
Work(t, value) ==
  /\ t \in Worker /\ stack[t] = <<>> /\ queue # <<>>
  /\ queue' = Tail(queue)
  /\ stack' = [stack EXCEPT ![t] = <<Store("approx", Head(queue), value)>>]
  /\ UNCHANGED <<values, callbacks, waiting>>

\* The server calls find().
Ask(key) ==
  /\ stack[Server] = <<>>
  /\ stack' = [stack EXCEPT ![Server] = <<FindNow(key)>>]
  /\ UNCHANGED async

AsyncStep(t) ==
  \/ FindStep(t) \/ Enlist(t) \/ Check(t) \/ StoreValue(t) \/ Notify(t)
  \/ NewTask(t) \/ TaskArrive(t) \/ Schedule(t)

AsyncInit ==
  /\ values = [term |-> <<>>, approx |-> <<>>]
  /\ callbacks = [term |-> <<>>, approx |-> <<>>]
  /\ waiting = <<>> /\ queue = <<>>
  /\ stack = [t \in Thread |-> <<>>]

\* Whatever terms are asked for, and whatever is computed for them.
AsyncNext ==
  \/ \E key \in Key : Ask(key)
  \/ \E t \in Thread : AsyncStep(t) \/ \E a \in Approx : Work(t, {a})

AsyncSpec == AsyncInit /\ [][AsyncNext]_asyncVars

-----------------------------------------------------------------------------
(* Properties.                                                             *)

\* What becomes of a call: a thread that is to find a key has its callback
\* called, then or later; what a callback is called with does not matter.
Final(c) ==
  IF c.do \in {"find_async", "check", "enlist"} /\ c.then # Nothing THEN c.then[1]
  ELSE IF c.do = "store" THEN [c EXCEPT !.then = NoValue]
  ELSE c

\* The calls that are still to be made, each with where it stands; stacks are
\* counted from the bottom.
OnStacks ==
  UNION {{<<Final(stack[t][i]), <<t, Len(stack[t]) - i>> >> : i \in DOMAIN stack[t]}
           : t \in Thread}

InLists ==
  UNION {UNION {{<<Final(callbacks[m][k][i]), <<m, k, i>> >> : i \in DOMAIN callbacks[m][k]}
                  : k \in DOMAIN callbacks[m]} : m \in Maps}

Count(call) ==
  Cardinality({c \in OnStacks : c[1] = call}) + Cardinality({c \in InLists : c[1] = call})

\* The calls that have a key's value made: the start of its function, and in the
\* end the call that stores it.
Makers(map, k) == Count(Call("function", map, k, Nothing)) + Count(Store(map, k, NoValue))

Due(map, k) == IF k \in DOMAIN values[map] /\ Value(map, k) = NoValue THEN 1 ELSE 0

\* What store() asserts: the key is there, has no value yet, and has a list of
\* callbacks.  And a callback finds the task that it belongs to, which deletes
\* itself when the last one has arrived.
Asserted ==
  \A t \in Thread :
    /\ Doing(t, "store") => Due(Top(t).map, Top(t).key) = 1
    /\ Doing(t, "notify") => Top(t).key \in DOMAIN callbacks[Top(t).map]
    /\ Doing(t, "arrive") => Top(t).key \in DOMAIN waiting

\* Nothing is called twice or forgotten: a task waits for as many callbacks as
\* there will be, a key without a value has one call that will store it, one
\* with a value has none, and callbacks that wait for it are being called.
Accounted ==
  /\ \A k \in DOMAIN waiting : waiting[k] = Count(Arrive(k))
  /\ \A k \in DOMAIN values["term"] :
       Makers("term", k) + Cardinality({k} \cap DOMAIN waiting) = Due("term", k)
  /\ \A k \in DOMAIN values["approx"] :
       Makers("approx", k) + Cardinality({i \in DOMAIN queue : queue[i] = k})
         = Due("approx", k)
  /\ \A m \in Maps : \A k \in DOMAIN callbacks[m] :
       \/ Value(m, k) = NoValue
       \/ Count(Call("notify", m, k, Value(m, k))) = 1

=============================================================================
