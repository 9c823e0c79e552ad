SPECIFICATION SettleSpec
CONSTANTS
  Chats = {spec}
  Specialists = {spec}
  Moments = {1, 2}
  Senders = {j1}
  BatchSize = 2
  MaxAttempts = 2
  RetryDelay = 1
  Lead = 1
  MaxChanges = 1
  MaxDeaths = 1
  MaxOutboxClock = 1
  Invoices = {1}
  Transfers = {t1}
  Operations = {n1}
  Owners = {w1}
  Operators = {o1}
  LifecycleRuns = {r1}
  Periods = {1}
  TrialDays = 0
  GraceDays = 1
  WarningDays = 1
  MaxGrants = 1
  MaxLapseDeaths = 1
  MaxDay = 2
  Procs = {p1, p2}
  Jobs = {"sweep"}
  Interval <- MCIntervals
  MaxBackoff = 2
  MaxFaults = 2
  Codes = {1, 2}
  Visitors = {x1, x2}
  Purposes = {"BOOKING", "CUSTOMER_LOGIN"}
  CodeTTL = 2
  VerifiedTTL = 2
  Cooldown = 2
  MaxGuesses = 2
  RequestLimit = 1
  RequestWindow = 2
  MaxUnspent = 1
  MaxPhoneClock = 2
  Members = {m1}
  Taps = {t1, t2}
  Receipts = {1}
  Starts = {1}
  ButtonLife = 1
  MaxCards = 2
  MaxBotDeaths = 1
  MaxBotClock = 0
  Updates = {u1}
  Deliveries = {d1, d2}
  ClaimLease = 1
  MaxHandlerFaults = 1
  MaxHandlerDeaths = 1
  MaxHookClock = 2
  Steps <- MCSteps
  Chat = {h1, h2}
  Orders = {1, 2}
  ConfirmCards = {1}
  MaxChatDeaths = 1
  Offers <- MCOffers
  Days = {1, 2}
  Times = {1}
  Posts = {1}
  Unchosen = "unchosen"
  Pollers = {1}
  Salons = {"salon"}
  Bots = {b1, b2}
  Hands = {form, other}
  Form = form
  FormSalon = "salon"
  Intents = {1}
  Keys = {1, 2}
  MaxSetupFaults = 1
  Visits = {1, 2}
  Entries = {1}
  Cancellers = {k1, k2}
  Desired <- MCDesired
  NotifyLimit = 1
  MaxSlotDeaths = 1
  Spans <- MCSpans
  VisitSpans <- MCVisitSpans
  Buffers = {0, 1}
  DayUnits = 8
  HourUnits = 4
  SlotUnits = 2
  DefaultView <- MCDefaultView
  MaxRows = 3
  Blocks = {1, 2}
  Places <- MCPlaces
  MaxAgendaChanges = 2
  Services = {1, 2}
  Admins = {a1, a2}
  MaxEdits = 5
  Branches = {1, 2}
  MainBranch = 1
  Managers = {a1, a2}
  MaxRequests = 3
  Bills = {1, 2}
  Clerks = {c1}
  MaxSlips = 1
  Phones = {"p1", "p2"}
  Records = {1}
  Holder <- MCHolder
  NoNumber = "none"
  FreeHours = 1
  MoveLimit = 1
  MaxCodes = 2
  LastHour = 2
  Seats = {"owner", "worker"}
  Role <- MCRole
  People = {"ann", "bob"}
  Hall = "hall"
  Tokens = {1, 2}
  NoPerson = "nobody"
  CardSlots = {1}
  OpenDays = {1, 2}
  Treatments = {1}
  Masters = {1, 2}
  DoneBy <- MCDoneBy
  MaxLoads = 2
  MaxPresses = 1
  Guests = {"eva", "zoe"}
  OnForm = "eva"
  Words = {1}
  Menu = {1, 2}
  PriceOf <- MCPriceOf
  Sales <- MCSales
  PrepayRules <- MCPrepayRules
  Somoni = 2
  Retries = 2
  MaxOwnerSteps = 2
  MaxRefreshes = 2
  Returns = {}
  Identifiers = {"phone"}
  SignIns = {x1, x2}
  LoginLimit = 1
  AddressLimit = 2
  MaxSignIns = 3
  MaxLimiterFaults = 1
  MaxLoginWindow = 1
  RecoveryRequests = {q1, q2}
  ResetCodes = {1}
  Numbers = {"known", "strange"}
  WithAccount = {"known"}
  NoRequest = "none"
  Blank = 0
  AskLimit = 1
  VerifyLimit = 1
  MaxRecoveries = 3
PROPERTIES
  NoticesSettle
  PlansSettle
  JobsSettle
  UpdatesSettle
  PageSettles
CHECK_DEADLOCK FALSE
