CONSTANTS
  Writers = {w1}
  Notes = {n1}
  Transitions <- TransitionsDef
  MaxSmsRetries = 3
  MaxMisfortunes = 0
SPECIFICATION NoticesFair
PROPERTY SmsSettled
CHECK_DEADLOCK FALSE
