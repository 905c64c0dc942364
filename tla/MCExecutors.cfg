SPECIFICATION MCSpec
CONSTANTS
  self = self
  net = net
  t1 = t1
  t2 = t2
  t3 = t3
  stop = stop
  none = none
  c1 = c1
  c2 = c2
  Caller <- MCCaller
  Self = self
  Task = {t1, t2, t3}
  Expiring <- MCExpiring
  StopTask = stop
  NoTask = none
  QueryCaller = {c1, c2}
  Query = {q1, q2, q3}
  WithCallback = {q1}
  NoQuery = none
  Ip = {peer}
  Limit = 5
  Fast = 2
  Forget = 20
  Block = 12
  Extra = 1
  MaxBlock = 13
  ServerSendsFirst = FALSE
  MaxQueue = 2
  MaxLate = 3
  Caster = {caster}
  Spectator = {spectator}
  Raid = {r1, r2}
  Once = {r2}
  Length = 2
  NoRaid = none
INVARIANTS
  TypeOK
  NoLostWakeup
  QueriesRunOnce
  
  ConnectionIsSound
  BurstsAreCut
  NoCircularWait
PROPERTIES
  ImplementsExecutor
  ShutdownCompletes
  
  
CHECK_DEADLOCK FALSE
