CONSTANTS
 Parts={"requests","routing","queue"}
 Calls={r1,r2}
 Requests={r1,r2}
 Thresholds={1}
 Snapshots <- TwoSnapshots
 Session <- OneSession
 NoSession=NoSession
 NoChannel=NoChannel
 a=a
 b=b
 s1=s1
 gone=gone
 k1=k1
 k2=k2
 k3=k3
 NoEntry=NoEntry
 NoThread=NoThread
 ShardCount=2
 Shard <- ShardOf
 CacheKeys={k1,k2,k3}
 Threads={t1,t2}
 Limits={1,2}
 Ttls={1}
 MaxTime=1
 RouteGroups <- Groups
 MaxUpstreamAttempts=3
 Routes={a}
 MaxStreak=1
 Events={e1,e2,e3,e4}
 Tasks={u1,u2,u3}
 ReportBatchSize=2
 ReportMaxInFlight=2
 FlushImmediately=FALSE
SPECIFICATION Spec
SYMMETRY GatewaySymmetry
INVARIANTS ReservationReportedOnce BlameIsExact RetryGoesElsewhere PinsAreEarned RoutingIsFair
INVARIANTS WorkersSuffice EventsConserved
CHECK_DEADLOCK FALSE
