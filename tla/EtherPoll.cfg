SPECIFICATION FairSpec
CONSTANT ISQ_LEN = 3
PROPERTY ReportedFrameIsRead
