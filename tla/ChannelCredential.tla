-------------------------- MODULE ChannelCredential --------------------------
(***************************************************************************)
(* The OAuth credential of one channel: feedback of rejected requests that *)
(* refreshes it or disables the channel (ChannelFeedbackService), manual   *)
(* refreshes (refresh_codex_oauth_key_singleflight), the edits of an       *)
(* administrator, and the provider's rotating refresh tokens.              *)
(*                                                                         *)
(* A credential is the number of its generation, and holds an access token *)
(* and a refresh token.  A refresh reads the channel under the channel's   *)
(* refresh lock, sends the refresh token, and stores what it got if the    *)
(* key of the channel is still the one it read.  An edit reads the whole   *)
(* record, patches it and writes the whole record.                         *)
(***************************************************************************)
EXTENDS Naturals

CONSTANTS
  Refreshers,     \* handlers of feedback and of manual refreshes
  Editors,        \* handlers of channel edits
  NoOne,          \* the refresh lock when it is free
  MaxGeneration,  \* bound on the credentials the provider issues
  HandlersFail    \* whether handlers are dropped, and stores and requests fail

ASSUME CredentialAssumption ==
  /\ MaxGeneration \in Nat /\ HandlersFail \in BOOLEAN
  /\ NoOne \notin Refreshers

VARIABLES
  auto_disable,  \* whether the policy disables a channel for a 401, fixed
  channel,       \* the stored record: key, status, and a last refresh that is recent
  provider,      \* the last generation issued, the refresh tokens consumed,
                 \* and the access tokens rejected
  refresher,     \* what each handler is doing
  refresh_lock,  \* the holder of the channel's refresh lock
  editor,        \* the record each edit has read
  reused,        \* refresh tokens that were sent once they were consumed
  unstored       \* refresh tokens whose rotation was not stored, or was undone

credential_vars ==
  <<auto_disable, channel, provider, refresher, refresh_lock, editor, reused, unstored>>

Generation == 0..MaxGeneration
ChannelRecord == [key : Generation, status : {"enabled", "auto_disabled"}, recent : BOOLEAN]
IdleRefresher == [pc |-> "idle", manual |-> FALSE, observed |-> 0, expected |-> 0, new |-> 0]

CredentialTypeOK ==
  /\ auto_disable \in BOOLEAN
  /\ channel \in ChannelRecord
  /\ provider \in [last : Generation, consumed : SUBSET Generation,
                   rejected : SUBSET Generation]
  /\ refresher \in [Refreshers ->
       [pc : {"idle", "lock", "send", "store", "disable"}, manual : BOOLEAN,
        observed : Generation, expected : Generation, new : Generation]]
  /\ refresh_lock \in Refreshers \cup {NoOne}
  /\ editor \in [Editors -> [open : BOOLEAN, record : ChannelRecord]]
  /\ reused \subseteq Generation
  /\ unstored \subseteq Generation

Stored == [key |-> 0, status |-> "enabled", recent |-> FALSE]
ClosedEditor == [open |-> FALSE, record |-> Stored]

CredentialInit ==
  /\ auto_disable \in BOOLEAN
  /\ channel = Stored
  /\ provider = [last |-> 0, consumed |-> {}, rejected |-> {}]
  /\ refresher = [h \in Refreshers |-> IdleRefresher]
  /\ refresh_lock = NoOne
  /\ editor = [e \in Editors |-> ClosedEditor]
  /\ reused = {}
  /\ unstored = {}

-----------------------------------------------------------------------------
(***************************************************************************)
(* The provider                                                            *)
(***************************************************************************)

\* An access token that was issued expires or is revoked: upstreams reject it.
RejectAccess ==
  /\ \E g \in 0..provider.last :
       provider' = [provider EXCEPT !.rejected = @ \cup {g}]
  /\ UNCHANGED <<auto_disable, channel, refresher, refresh_lock, editor, reused, unstored>>

\* The token endpoint rotates: a refresh token works once.  MaxGeneration bounds
\* what it issues.
Issues(token) ==
  /\ token \notin provider.consumed
  /\ provider.last < MaxGeneration
  /\ provider' = [provider EXCEPT !.last = @ + 1, !.consumed = @ \cup {token}]

-----------------------------------------------------------------------------
(***************************************************************************)
(* A refresh                                                               *)
(***************************************************************************)

\* A 401 that the gateway reports, always with the fingerprint of the access token.
Feedback(h) ==
  /\ refresher[h].pc = "idle"
  /\ \E g \in provider.rejected :
       refresher' = [refresher EXCEPT ![h] =
         [IdleRefresher EXCEPT !.pc = "lock", !.observed = g]]
  /\ UNCHANGED <<auto_disable, channel, provider, refresh_lock, editor, reused, unstored>>

\* CodexRefreshCredentialRequest, and WHAM's retry of a 401.
ManualRefresh(h) ==
  /\ refresher[h].pc = "idle"
  /\ refresher' = [refresher EXCEPT ![h] =
       [IdleRefresher EXCEPT !.pc = "lock", !.manual = TRUE, !.observed = channel.key]]
  /\ UNCHANGED <<auto_disable, channel, provider, refresh_lock, editor, reused, unstored>>

\* Variant of Locked: the key read before the lock is used.
LockedStale(h) ==
  /\ refresher[h].pc = "lock" /\ refresh_lock = NoOne
  /\ refresh_lock' = h
  /\ refresher' = [refresher EXCEPT ![h] =
       [@ EXCEPT !.pc = "send", !.expected = refresher[h].observed]]
  /\ UNCHANGED <<auto_disable, channel, provider, editor, reused, unstored>>

\* The lock is taken and the channel is read again: another refresh may have
\* just been done.
Locked(h) ==
  /\ refresher[h].pc = "lock" /\ refresh_lock = NoOne
  /\ LET done == IF refresher[h].manual THEN channel.key # refresher[h].observed
                 ELSE channel.recent
     IN \/ /\ done
           /\ refresher' = [refresher EXCEPT ![h] = IdleRefresher]
           /\ UNCHANGED refresh_lock
        \/ /\ ~done
           /\ refresh_lock' = h
           /\ refresher' = [refresher EXCEPT ![h] =
                [@ EXCEPT !.pc = "send", !.expected = channel.key]]
  /\ UNCHANGED <<auto_disable, channel, provider, editor, reused, unstored>>

\* What a handler does once its refresh has failed: feedback may disable.
AfterFailedRefresh(h) ==
  IF refresher[h].manual \/ ~auto_disable THEN IdleRefresher
  ELSE [refresher[h] EXCEPT !.pc = "disable"]

\* The token endpoint answers with a new credential.
Refreshed(h) ==
  /\ refresher[h].pc = "send"
  /\ Issues(refresher[h].expected)
  /\ refresher' = [refresher EXCEPT ![h] =
       [@ EXCEPT !.pc = "store", !.new = provider.last + 1]]
  /\ UNCHANGED <<auto_disable, channel, refresh_lock, editor, reused, unstored>>

\* It refuses a consumed token, or its answer does not arrive.
NotRefreshed(h) ==
  LET token == refresher[h].expected IN
  /\ refresher[h].pc = "send"
  /\ reused' = reused \cup ({token} \cap provider.consumed)
  /\ \/ token \in provider.consumed /\ UNCHANGED <<provider, unstored>>
     \/ HandlersFail /\ UNCHANGED <<provider, unstored>>
     \/ HandlersFail /\ Issues(token) /\ unstored' = unstored \cup {token}
  /\ refresh_lock' = NoOne
  /\ refresher' = [refresher EXCEPT ![h] = AfterFailedRefresh(h)]
  /\ UNCHANGED <<auto_disable, channel, editor>>

\* RotateChannelCredentialRequest, for the key that was read.
Rotated(h) ==
  /\ refresher[h].pc = "store"
  /\ channel.key = refresher[h].expected
  /\ channel' = [channel EXCEPT !.key = refresher[h].new, !.recent = TRUE]
  /\ refresh_lock' = NoOne
  /\ refresher' = [refresher EXCEPT ![h] = IdleRefresher]
  /\ UNCHANGED <<auto_disable, provider, editor, reused, unstored>>

\* The key is another one now, or the store fails: the new credential is lost.
NotRotated(h) ==
  /\ refresher[h].pc = "store"
  /\ channel.key # refresher[h].expected \/ HandlersFail
  /\ unstored' = unstored \cup {refresher[h].expected}
  /\ refresh_lock' = NoOne
  /\ refresher' = [refresher EXCEPT ![h] = AfterFailedRefresh(h)]
  /\ UNCHANGED <<auto_disable, channel, provider, editor, reused>>

\* Variant of Disable: the fingerprint of the event is not compared.
DisableUnchecked(h) ==
  /\ refresher[h].pc = "disable"
  /\ channel' = [channel EXCEPT !.status = "auto_disabled"]
  /\ refresher' = [refresher EXCEPT ![h] = IdleRefresher]
  /\ UNCHANGED <<auto_disable, provider, refresh_lock, editor, reused, unstored>>

\* AutoDisableChannelRequest, for the access token that was rejected.  It leaves
\* alone a channel with another one by now, and one whose auto_ban, which edits
\* change at will, is off.
Disable(h) ==
  /\ refresher[h].pc = "disable"
  /\ \/ /\ channel.key = refresher[h].observed
        /\ channel' = [channel EXCEPT !.status = "auto_disabled"]
     \/ UNCHANGED channel
  /\ refresher' = [refresher EXCEPT ![h] = IdleRefresher]
  /\ UNCHANGED <<auto_disable, provider, refresh_lock, editor, reused, unstored>>

\* The handler's client is gone: it is dropped at an await, and frees the lock.
RefresherDropped(h) ==
  /\ HandlersFail
  /\ refresher[h].pc # "idle"
  /\ unstored' = IF refresher[h].pc = "store"
                 THEN unstored \cup {refresher[h].expected} ELSE unstored
  /\ refresh_lock' = IF refresh_lock = h THEN NoOne ELSE refresh_lock
  /\ refresher' = [refresher EXCEPT ![h] = IdleRefresher]
  /\ UNCHANGED <<auto_disable, channel, provider, editor, reused>>

\* Thirty seconds after a refresh it is not recent any more.
RefreshAges ==
  /\ channel.recent
  /\ channel' = [channel EXCEPT !.recent = FALSE]
  /\ UNCHANGED <<auto_disable, provider, refresher, refresh_lock, editor, reused, unstored>>

-----------------------------------------------------------------------------
(***************************************************************************)
(* The administrator                                                       *)
(***************************************************************************)

\* update_channel reads the record that it will patch.
EditReads(e) ==
  /\ ~editor[e].open
  /\ editor' = [editor EXCEPT ![e] = [open |-> TRUE, record |-> channel]]
  /\ UNCHANGED <<auto_disable, channel, provider, refresher, refresh_lock, reused, unstored>>

\* UpdateChannelRequest writes the whole record: it may put back a consumed
\* credential in place of the one that was rotated.
EditWrites(e) ==
  /\ editor[e].open
  /\ channel' = editor[e].record
  /\ unstored' = unstored \cup (({editor[e].record.key} \ {channel.key}) \cap provider.consumed)
  /\ editor' = [editor EXCEPT ![e] = ClosedEditor]
  /\ UNCHANGED <<auto_disable, provider, refresher, refresh_lock, reused>>

\* The edit has a key of its own: the credential of a new login.
EditImports(e) ==
  /\ editor[e].open /\ provider.last < MaxGeneration
  /\ provider' = [provider EXCEPT !.last = @ + 1]
  /\ channel' = [editor[e].record EXCEPT !.key = provider.last + 1, !.recent = FALSE]
  /\ editor' = [editor EXCEPT ![e] = ClosedEditor]
  /\ UNCHANGED <<auto_disable, refresher, refresh_lock, reused, unstored>>

\* The status endpoint enables the channel in one step.
EnableChannel ==
  /\ channel.status # "enabled"
  /\ channel' = [channel EXCEPT !.status = "enabled"]
  /\ UNCHANGED <<auto_disable, provider, refresher, refresh_lock, editor, reused, unstored>>

-----------------------------------------------------------------------------
CredentialNext ==
  \/ RejectAccess \/ RefreshAges \/ EnableChannel
  \/ \E h \in Refreshers :
       \/ Feedback(h) \/ ManualRefresh(h) \/ Locked(h) \/ Refreshed(h)
       \/ NotRefreshed(h) \/ Rotated(h) \/ NotRotated(h) \/ Disable(h)
       \/ RefresherDropped(h)
  \/ \E e \in Editors : EditReads(e) \/ EditWrites(e) \/ EditImports(e)

CredentialSpec == CredentialInit /\ [][CredentialNext]_credential_vars

-----------------------------------------------------------------------------
(***************************************************************************)
(* Properties                                                              *)
(***************************************************************************)

\* A consumed refresh token is sent again only if what it brought the first
\* time was not stored or was undone by an edit: the lock, the second
\* read and the check for a recent refresh leave no other way.
ReuseOnlyAfterLoss == reused \subseteq unstored

\* Feedback disables a channel only while it has the credential that was
\* rejected: feedback that comes after a refresh or an import changes nothing.
DisablesRejectedOnly ==
  [][(channel.status = "enabled" /\ channel'.status = "auto_disabled"
      /\ UNCHANGED editor) => channel.key \in provider.rejected]_credential_vars

=============================================================================
