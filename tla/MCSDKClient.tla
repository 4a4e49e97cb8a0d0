---------------------------- MODULE MCSDKClient ----------------------------
(***************************************************************************)
(* The client library on small instances: a bounded number of reconnect    *)
(* attempts ("bounded"), unlimited attempts with several drops             *)
(* ("unlimited"), and a manual Reconnect beside the automatic one          *)
(* ("manual"); and the reconnecting client of the gateway's own package    *)
(* with one subscription ("wrapper"), or with calls of every kind and an   *)
(* early Stop ("callers").                                                 *)
(***************************************************************************)
EXTENDS SDKClient

VARIABLES mode, run, first, ready, wconn, wcur, wdialled, open, gone, wserved, unsent,
          subs, snap, events, stop, user, call, calls, panicked

wrapperVars == <<run, first, ready, wconn, wcur, wdialled, open, gone, wserved, unsent,
                 subs, snap, events, stop, user, call, calls, panicked>>

Unlimited == INSTANCE SDKClient WITH MaxReconnectAttempts <- 0, MaxDrops <- 3
Manual == INSTANCE SDKClient WITH MaxReconnectAttempts <- 1, MaxManual <- 1

Wrapper == INSTANCE Reconnector
    WITH Unsubscribes <- FALSE, StopEarly <- FALSE, EventCap <- 1, MaxConns <- 2,
         MaxCalls <- 2, conn <- wconn, cur <- wcur, dialled <- wdialled, served <- wserved
Callers == INSTANCE Reconnector
    WITH Unsubscribes <- TRUE, StopEarly <- TRUE, EventCap <- 1,
         MaxConns <- 2, MaxCalls <- 2,
         conn <- wconn, cur <- wcur, dialled <- wdialled, served <- wserved

wrapping == mode \in {"wrapper", "callers"}

MCInit == /\ Init /\ mode \in {"bounded", "unlimited", "manual", "wrapper", "callers"}
          /\ IF mode = "callers" THEN Callers!Init ELSE Wrapper!Init
          /\ (~wrapping => subs = {})
MCNext ==
    /\ UNCHANGED mode
    /\ \/ /\ \/ mode = "bounded" /\ Next
             \/ mode = "unlimited" /\ Unlimited!Next
             \/ mode = "manual" /\ Manual!Next
          /\ UNCHANGED wrapperVars
       \/ /\ \/ mode = "wrapper" /\ Wrapper!Next
             \/ mode = "callers" /\ Callers!Next
          /\ UNCHANGED vars

MCSpec ==
    /\ MCInit /\ [][MCNext]_<<vars, wrapperVars, mode>>
    /\ WF_vars(mode = "bounded" /\ Close)
    /\ \A k \in Recons : WF_vars(mode = "bounded" /\ reconnectLoop(k))
    /\ \A r \in Readers : WF_vars(mode = "bounded" /\ readLoop(r))
    /\ WF_wrapperVars(wrapping /\ ~panicked /\ Wrapper!Loop)
    /\ WF_wrapperVars(wrapping /\ ~panicked /\ Wrapper!Caller)
    /\ WF_wrapperVars(wrapping /\ ~panicked /\ Wrapper!Stop)

\* The read loop and the reconnect goroutine hand the connection over when
\* nobody calls Reconnect (readLoop, reconnect).
OneOwnerAutomatic == mode # "manual" => OneOwner

\* Nor does any of them then use a nil connection or a closed channel.
NoPanicAutomatic == mode # "manual" => NeverPanics

\* Close returns when the number of attempts is bounded (Close, shutdown).
CloseReturnsBounded ==
    (mode = "bounded" /\ closer = "wait") ~> closer = "returned"

\* The reconnecting client's loop, calls and connections (reconnect.go).
WrapperTypes == IF mode = "callers" THEN Callers!TypeOK ELSE Wrapper!TypeOK

\* It never holds two open connections (readPump, connect).
OneConnection == Wrapper!OneConnection

\* Its Stop leaves no connection open (Stop, connect).
StoppedClosed == Wrapper!StoppedClosed

\* With one symbol, the server delivers what is registered (resubscribeAll).
Restored == mode = "wrapper" => Wrapper!Restored

\* Start returns when Stop is not called before (Start, run).
StartEnds == mode = "wrapper" => Wrapper!StartEnds

\* Stop returns (Stop, readPump).
StopEnds == Wrapper!StopEnds


\* The reconnecting client holds one connection, none after Stop, and restores its
\* subscription (readPump, connect, resubscribeAll).
WrapperSafe == WrapperTypes /\ OneConnection /\ StoppedClosed /\ Restored

=============================================================================
