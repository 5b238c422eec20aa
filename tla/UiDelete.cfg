CONSTANTS
    Views = {deployments, services}
    Names = {a, b}
    Namesakes = {}
    None = None
    MaxLate = 1
SPECIFICATION Spec
PROPERTY DeleteIsOfSelectedRow
