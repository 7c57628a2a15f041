CONSTANTS
  near = near  far = far  run = run  edit = edit  allow = allow  deny = deny
  Clients = {near, far}
  Prompts = {run}
  Values = {allow, deny}
  Undecided = Undecided
  MaxFaults = 2
SPECIFICATION FairAnswerSpec
INVARIANTS NoRequestForgotten UserDecides
PROPERTY PromptsClose
CHECK_DEADLOCK FALSE
