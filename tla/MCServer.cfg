SPECIFICATION Spec
CONSTANTS
  phone = phone
  local = local
  lan = lan
  lo = lo
  Socket = {phone, local}
  Ip = {lan, lo}
  IpOf <- Ips
  Loopback = {lo}
  Project = {"p"}
  Limit = 2
  MaxWindows = 1
  MaxCommands = 1
  MaxChanges = 2
INVARIANTS ContentIsForPhones OnlyFailuresArePlain GuessesOutsideLockouts BadgesSettle
PROPERTIES OwnerGetsIn
CHECK_DEADLOCK FALSE
