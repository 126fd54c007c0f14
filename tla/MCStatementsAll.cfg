\* Two or three of the postings at a time, their emails, and one reader.
SPECIFICATION FairSpec
CONSTANTS
    Ada = Ada  Ben = Ben
    send = send  back = back  add = add  out = out  fail = fail
    Wallets = {Ada, Ben}
    Jobs = {send, back, add, out, fail}
    Work <- WorkOf
    Opening <- OpeningOf
    Midnight <- MidnightOf
    NoWallet = NoWallet  NoBalance = NoBalance  NoDate = NoDate  NoQuery = NoQuery
    Minute = 1
    Limit = 1
    MaxTime = 1
    Mixes <- MixesOf
    MaxFaults = 1
INVARIANTS TypeOK MailsAreTrue LastIsTold PagesAreHistory
PROPERTIES EveryPartyIsTold
CHECK_DEADLOCK FALSE
