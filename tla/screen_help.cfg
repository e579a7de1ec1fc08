CONSTANTS
    Printable = {"s", "/"}
    Sizes <- OneSize
    SayName <- Say
    HelpName <- Help
    HelpText <- SmallHelp
    Complaint <- SmallComplaint
    Welcome <- SmallWelcome
    Author <- SmallAuthor
    MaxLen = 3
    MaxLog = 3
SPECIFICATION Spec
CHECK_DEADLOCK FALSE
INVARIANT HelpIsShown
